---- MODULE Spec2Model ----
(***************************************************************************)
(* SmartUI Fusion: the User Behavior Analyzer (SmartUIUserAnalyzer), the   *)
(* EnhancedDecisionEngine and SmartUIDecisionEngine._integrate_decisions.  *)
(*                                                                         *)
(* Conventions.                                                            *)
(*  - Python floats are modelled as exact rationals <<n, d>> in lowest     *)
(*    terms with d > 0 (float rounding is not modelled).                   *)
(*  - Strings that the code concatenates (user ids, cache keys) are        *)
(*    sequences of one-character strings.                                  *)
(*  - A dict is a function whose DOMAIN is the set of its keys.            *)
(*  - datetime.now() is the integer clock now, moved by Tick.              *)
(***************************************************************************)
EXTENDS Integers, Sequences, FiniteSets, TLC

VARIABLES
    now,                  \* datetime.now(), in ticks
    next_id,              \* 1 + the number of record_interaction calls made so far
    interaction_history,  \* SmartUIUserAnalyzer.interaction_history: user id -> deque(maxlen=1000)
    session_data,         \* SmartUIUserAnalyzer.session_data
    user_profiles,        \* SmartUIUserAnalyzer.user_profiles
    analysis_cache,       \* SmartUIUserAnalyzer.analysis_cache
    arrivals,             \* observer: per user, every interaction id handed to record_interaction, in order
    last_call,            \* observer: what the most recent analyzer call did and returned
    calls,                \* observer: log of the analyze_user_behavior calls
    framework_weights,    \* EnhancedDecisionEngine.framework_weights
    decision_history,     \* EnhancedDecisionEngine.decision_history
    engine_profiles,      \* EnhancedDecisionEngine.user_analyzer.user_profiles
    strategy,             \* EnhancedDecisionEngine.strategy (configuration)
    learning_enabled,     \* EnhancedDecisionEngine.learning_enabled (configuration)
    decision_log,         \* observer: every make_decision call with its request and outcome
    tasks,                \* the make_decision calls running as asyncio tasks, with their locals
    integrate_in,         \* SmartUIDecisionEngine._integrate_decisions: the decisions list of the call
    integrate_out,        \* ... and what the call did
    smartui_history,      \* SmartUIDecisionEngine.decision_history; an entry carries the number of its call
    performance_metrics,  \* SmartUIDecisionEngine.performance_metrics
    recorded_times        \* observer: the _record_decision calls made and the sum of their response times

analyzer_vars == <<interaction_history, session_data, user_profiles, analysis_cache,
                   arrivals, last_call, calls, next_id>>
engine_vars == <<framework_weights, decision_history, engine_profiles, strategy,
                 learning_enabled, decision_log, tasks>>
record_vars == <<smartui_history, performance_metrics, recorded_times>>
integrate_vars == <<integrate_in, integrate_out, record_vars>>
vars == <<now, analyzer_vars, engine_vars, integrate_vars>>

-----------------------------------------------------------------------------
(* Bounds of the model.                                                    *)

MaxTime == 3          \* the clock runs 0..MaxTime
MaxRecords == 3       \* record_interaction calls in one behaviour of Spec
MaxCalls == 2         \* analyze_user_behavior calls in one behaviour of Spec
MaxRingOverflow == 3  \* SpecRing records capacity + MaxRingOverflow interactions for one user
MaxOtherRecords == 2  \* ... and this many for a second user
MaxDecisions == 2     \* make_decision calls in one behaviour of SpecEngine
MaxEngineTime == 1    \* the clock runs 0..MaxEngineTime in SpecEngine (08:00 and 09:00)
MaxTasks == 2         \* concurrent make_decision tasks in one behaviour of SpecTasks
MaxStamped == 3       \* record_interaction calls in one behaviour of SpecWindow
MaxRecorded == 4      \* _record_decision calls in one behaviour of SpecRecord
MantissaBits == 8     \* significant bits of a float in SpecWeights (a Python float has 53)
MaxPlain == 1         \* make_decision calls without a boost in one behaviour of SpecWeights

(* Configuration of the modelled analyzer instance (config.get(...)); one   *)
(* tick of the clock is one hour.                                          *)
analysis_window == 2                 \* analysis_window_days, in ticks
cache_ttl == 2                       \* cache_ttl_minutes, in ticks
min_interactions_for_analysis == 2   \* default 10

(* Program constants.                                                      *)
RingCapacity == 1000                 \* deque(maxlen=1000)

-----------------------------------------------------------------------------
(* Rationals.                                                              *)

RECURSIVE GCD(_, _)
GCD(a, b) == IF b = 0 THEN a ELSE GCD(b, a % b)

Abs(x) == IF x < 0 THEN -x ELSE x

Rat(n, d) ==
    LET g == GCD(Abs(n), Abs(d))
        s == IF d < 0 THEN -1 ELSE 1
    IN  <<(s * n) \div g, (s * d) \div g>>

RAdd(p, q) ==
    LET g == GCD(p[2], q[2])
    IN  Rat(p[1] * (q[2] \div g) + q[1] * (p[2] \div g), (p[2] \div g) * q[2])

RNeg(p) == <<-p[1], p[2]>>
RSub(p, q) == RAdd(p, RNeg(q))
RMul(p, q) ==
    LET g1 == GCD(Abs(p[1]), q[2])
        g2 == GCD(Abs(q[1]), p[2])
        a1 == IF g1 = 0 THEN 1 ELSE g1
        a2 == IF g2 = 0 THEN 1 ELSE g2
    IN  Rat((p[1] \div a1) * (q[1] \div a2), (p[2] \div a2) * (q[2] \div a1))
RDiv(p, q) == RMul(p, Rat(q[2], q[1]))
RLt(p, q) == p[1] * q[2] < q[1] * p[2]
RLe(p, q) == p[1] * q[2] <= q[1] * p[2]
RMin(p, q) == IF RLe(p, q) THEN p ELSE q
RMax(p, q) == IF RLe(p, q) THEN q ELSE p
Zero == <<0, 1>>
One == <<1, 1>>
Dec(n, d) == Rat(n, d)    \* the decimal literal n/d

RECURSIVE RSumSeq(_)
RSumSeq(s) == IF s = <<>> THEN Zero ELSE RAdd(s[1], RSumSeq(Tail(s)))

RECURSIVE SumSeq(_)
SumSeq(s) == IF s = <<>> THEN 0 ELSE s[1] + SumSeq(Tail(s))

\* np.mean of a non-empty list of integers
Mean(s) == Rat(SumSeq(s), Len(s))

Count(s, P(_)) == Cardinality({i \in 1..Len(s) : P(s[i])})

-----------------------------------------------------------------------------
(* Dicts.                                                                  *)

EmptyDict == [k \in {} |-> 0]
Has(d, k) == k \in DOMAIN d
Put(d, k, v) == [x \in DOMAIN d \cup {k} |-> IF x = k THEN v ELSE d[x]]
Del(d, ks) == [x \in DOMAIN d \ ks |-> d[x]]
\* dict.update(e)
Update(d, e) == [x \in DOMAIN d \cup DOMAIN e |-> IF x \in DOMAIN e THEN e[x] ELSE d[x]]
\* dict.get(k, default)
Get(d, k, default) == IF k \in DOMAIN d THEN d[k] ELSE default

None == "None"

-----------------------------------------------------------------------------
(* Data model of smartui_user_analyzer.py.                                 *)

\* class InteractionType, in declaration order
InteractionTypeOrder == <<"voice", "visual", "touch", "keyboard", "mouse", "gesture">>
InteractionType == {InteractionTypeOrder[i] : i \in 1..Len(InteractionTypeOrder)}
\* a modality that is no InteractionType member (a plain string): it has no .value
MalformedModality == "str"

\* user ids are caller-supplied strings
UserA == <<"a">>
UserB == <<"a", "_", "7">>
UserIds == {UserA, UserB}
SessionIds == {"s1"}

\* the context argument of analyze_user_behavior and hash(str(context)) in this process
Contexts == {None, "ctx"}
ContextHash(context) == IF context = None THEN 7 ELSE -3

\* str(n) for an integer n
DigitChars == <<"0", "1", "2", "3", "4", "5", "6", "7", "8", "9">>
RECURSIVE NatStr(_)
NatStr(n) == IF n < 10 THEN <<DigitChars[n + 1]>> ELSE NatStr(n \div 10) \o <<DigitChars[(n % 10) + 1]>>
IntStr(n) == IF n < 0 THEN <<"-">> \o NatStr(-n) ELSE NatStr(n)

\* f"{user_id}_{hash(str(context))}"
CacheKey(user_id, context) == user_id \o <<"_">> \o IntStr(ContextHash(context))

\* interaction.context values: a dict without 'device_info', dicts with it, and a
\* malformed context (None, on which `'device_info' in i.context` raises TypeError)
NoneContext == [is_none |-> TRUE]
IsNoneContext(c) == Has(c, "is_none")
MobileDevice == [type |-> "mobile", screen_width |-> 400, primary_input |-> "touch"]
DesktopDevice == [type |-> "desktop", screen_width |-> 1280, primary_input |-> "keyboard"]
NoDeviceContext == EmptyDict
DeviceContext(d) == [device_info |-> d]

\* UserInteraction(...)
UserInteraction(id, user_id, session_id, ts, kind) ==
    [interaction_id |-> id, user_id |-> user_id, session_id |-> session_id,
     timestamp |-> ts, interaction_type |-> kind.interaction_type,
     element_id |-> kind.element_id, element_type |-> kind.element_type,
     action |-> kind.action, context |-> kind.context, success |-> kind.success,
     duration |-> kind.duration, error_message |-> kind.error_message]

Kind(type, ctx, success, duration) ==
    [interaction_type |-> type, element_id |-> "btn", element_type |-> "button",
     action |-> "click", context |-> ctx, success |-> success, duration |-> duration,
     error_message |-> IF success THEN None ELSE "failed"]

\* the interactions Spec hands to record_interaction
PlainKind == Kind("voice", NoDeviceContext, TRUE, 1000)
InteractionKinds ==
    { PlainKind,
      Kind("keyboard", NoneContext, FALSE, 4000),
      Kind(MalformedModality, NoDeviceContext, TRUE, 1000) }
\* UserB is there for its id, which is also a cache key of UserA: it records plain
\* interactions and is never analyzed
KindsOf(user_id) == IF user_id = UserA THEN InteractionKinds ELSE {PlainKind}
AnalyzedUsers == {UserA}

\* UserProfile(...) as built by get_or_create_user_profile
NewUserProfile(user_id, t) ==
    [user_id |-> user_id, created_at |-> t, last_updated |-> t,
     device_preferences |-> EmptyDict, accessibility_needs |-> EmptyDict,
     preferred_input_methods |-> <<>>, interaction_patterns |-> EmptyDict,
     efficiency_metrics |-> EmptyDict, feature_usage |-> EmptyDict,
     error_patterns |-> EmptyDict, ui_preferences |-> EmptyDict]

-----------------------------------------------------------------------------
(* Interaction store: record_interaction.                                  *)

\* a full buffer that refuses the new item instead of evicting the oldest
DequeAppend_KeepOldest(q, x) ==
    IF Len(q) >= RingCapacity THEN q ELSE Append(q, x)

\* deque(maxlen=RingCapacity).append(x)
DequeAppend(q, x) ==
    IF Len(q) >= RingCapacity THEN Tail(q) \o <<x>> ELSE Append(q, x)

\* self.interaction_history[user_id].append(interaction) on the defaultdict
HistoryAppend(history, i) ==
    Put(history, i.user_id, DequeAppend(Get(history, i.user_id, <<>>), i))

\* lines 159-166
SessionAppend(sessions, i) ==
    LET s == IF Has(sessions, i.session_id) THEN sessions[i.session_id]
             ELSE [start_time |-> i.timestamp, interactions |-> <<>>, user_id |-> i.user_id]
    IN  Put(sessions, i.session_id, [s EXCEPT !.interactions = Append(@, i)])

IsAnalysisEntry(entry) == Has(entry, "analysis")
IsRealTimeEntry(entry) == Has(entry, "real_time_stats")

\* interaction.interaction_type.value raises AttributeError on a non-enum modality
HasValue(i) == i.interaction_type \in InteractionType

SuccessFloat(i) == IF i.success THEN One ELSE Zero

\* _update_real_time_analysis: [raised, cache]; the cache is the one the dict holds
\* when the exception (if any) leaves the method
UpdateRealTimeAnalysis(cache, i, t) ==
    LET user_id == i.user_id IN
    IF ~Has(cache, user_id)
    THEN IF ~HasValue(i)
         THEN [raised |-> TRUE, cache |-> cache]
         ELSE [raised |-> FALSE,
               cache |-> Put(cache, user_id,
                   [timestamp |-> t,
                    real_time_stats |->
                        [recent_success_rate |-> SuccessFloat(i),
                         recent_interaction_count |-> 1,
                         last_interaction_type |-> i.interaction_type]])]
    ELSE IF ~IsRealTimeEntry(cache[user_id])
         THEN [raised |-> TRUE, cache |-> cache]      \* KeyError: 'real_time_stats'
         ELSE LET stats == cache[user_id].real_time_stats
                  counted == [stats EXCEPT
                      !.recent_interaction_count = @ + 1,
                      !.recent_success_rate =
                          RAdd(RMul(Dec(9, 10), @), RMul(Dec(1, 10), SuccessFloat(i)))]
              IN  IF ~HasValue(i)
                  THEN [raised |-> TRUE,
                        cache |-> [cache EXCEPT ![user_id].real_time_stats = counted]]
                  ELSE [raised |-> FALSE,
                        cache |-> [cache EXCEPT ![user_id].real_time_stats =
                            [counted EXCEPT !.last_interaction_type = i.interaction_type]]]

\* _cleanup_expired_cache
CleanupExpiredCache(cache, t) ==
    Del(cache, {key \in DOMAIN cache : t - cache[key].timestamp > cache_ttl})

\* record_interaction(interaction)
RecordInteraction(i) ==
    LET upd == UpdateRealTimeAnalysis(analysis_cache, i, now) IN
    /\ interaction_history' = HistoryAppend(interaction_history, i)
    /\ session_data' = SessionAppend(session_data, i)
    /\ analysis_cache' = IF upd.raised THEN upd.cache ELSE CleanupExpiredCache(upd.cache, now)
    /\ arrivals' = [arrivals EXCEPT ![i.user_id] = Append(@, i.interaction_id)]
    /\ next_id' = next_id + 1
    /\ last_call' = [op |-> "record_interaction", user_id |-> i.user_id,
                     interaction_id |-> i.interaction_id, returned |-> ~upd.raised]
    /\ UNCHANGED <<now, user_profiles, calls, engine_vars, integrate_vars>>

-----------------------------------------------------------------------------
(* Pattern detectors.  Each takes the window (a sequence of interactions)  *)
(* and yields [raised, result]: raised when the Python method raises.      *)

Detected(confidence, data) == [raised |-> FALSE, result |-> [confidence |-> confidence, data |-> data]]

\* a failed detector reported with full confidence instead of none
DetectorRaised_Confident == [raised |-> TRUE, result |-> [confidence |-> One, data |-> EmptyDict]]

DetectorRaised == [raised |-> TRUE, result |-> [confidence |-> Zero, data |-> EmptyDict]]

\* the distinct values of s in order of first occurrence (a dict's insertion order)
RECURSIVE Distinct(_)
Distinct(s) ==
    IF s = <<>> THEN <<>>
    ELSE LET front == Distinct(SubSeq(s, 1, Len(s) - 1))
             x == s[Len(s)]
         IN  IF \E i \in 1..Len(front) : front[i] = x THEN front ELSE Append(front, x)

\* max(keys, key=score) over an ordered, non-empty key list with integer scores:
\* the first key, in that order, whose score is maximal
FirstMaxInt(keys, score(_)) ==
    keys[CHOOSE i \in 1..Len(keys) :
            /\ \A j \in 1..Len(keys) : score(keys[j]) <= score(keys[i])
            /\ \A j \in 1..(i - 1) : score(keys[j]) < score(keys[i])]

\* the same with rational scores
FirstMaxRat(keys, score(_)) ==
    keys[CHOOSE i \in 1..Len(keys) :
            /\ \A j \in 1..Len(keys) : RLe(score(keys[j]), score(keys[i]))
            /\ \A j \in 1..(i - 1) : RLt(score(keys[j]), score(keys[i]))]

\* a dict whose key order is read later: the <<key, value>> pairs in insertion order
ODict(order, f) == [n \in 1..Len(order) |-> <<order[n], f[order[n]]>>]
OKeys(od) == [n \in 1..Len(od) |-> od[n][1]]

TypesOf(interactions) == [i \in 1..Len(interactions) |-> interactions[i].interaction_type]
Successful(interactions) == SelectSeq(interactions, LAMBDA i : i.success)
Failed(interactions) == SelectSeq(interactions, LAMBDA i : ~i.success)
Durations(interactions) == [i \in 1..Len(interactions) |-> interactions[i].duration]
MeanOrZero(s) == IF s = <<>> THEN Zero ELSE Mean(s)

\* _detect_input_preference
DetectInputPreference(interactions) ==
    IF interactions = <<>> THEN Detected(Zero, EmptyDict)
    ELSE IF \E i \in 1..Len(interactions) : ~HasValue(interactions[i]) THEN DetectorRaised
    ELSE
    LET order == Distinct(TypesOf(interactions))
        types == {order[i] : i \in 1..Len(order)}
        total_interactions == Len(interactions)
        input_counts == [t \in types |-> Count(interactions, LAMBDA i : i.interaction_type = t)]
        success_rates == [t \in types |->
            Rat(Count(interactions, LAMBDA i : i.interaction_type = t /\ i.success), input_counts[t])]
        preference_scores == [t \in types |->
            RMul(Rat(input_counts[t], total_interactions), success_rates[t])]
        primary_preference == FirstMaxRat(order, LAMBDA t : preference_scores[t])
    IN  Detected(preference_scores[primary_preference],
                 [primary_preference |-> primary_preference,
                  preference_scores |-> ODict(order, preference_scores),
                  input_distribution |-> input_counts,
                  success_rates |-> success_rates])

\* _calculate_learning_trend
CalculateLearningTrend(interactions) ==
    IF Len(interactions) < 10 THEN Zero
    ELSE
    LET mid_point == Len(interactions) \div 2
        early_interactions == SubSeq(interactions, 1, mid_point)
        recent_interactions == SubSeq(interactions, mid_point + 1, Len(interactions))
        early_success_rate == Rat(Len(Successful(early_interactions)), Len(early_interactions))
        recent_success_rate == Rat(Len(Successful(recent_interactions)), Len(recent_interactions))
        early_avg_duration == MeanOrZero(Durations(Successful(early_interactions)))
        recent_avg_duration == MeanOrZero(Durations(Successful(recent_interactions)))
        success_improvement == RSub(recent_success_rate, early_success_rate)
        speed_improvement ==
            IF RLt(Zero, early_avg_duration)
            THEN RDiv(RSub(early_avg_duration, recent_avg_duration), early_avg_duration)
            ELSE Zero
        learning_trend == RDiv(RAdd(success_improvement, speed_improvement), <<2, 1>>)
    IN  RMax(<<-1, 1>>, RMin(One, learning_trend))

\* _assess_efficiency_level
AssessEfficiencyLevel(success_rate, avg_duration, learning_trend) ==
    LET efficiency_score ==
            RAdd(RAdd(RMul(success_rate, Dec(4, 10)),
                      RMul(RSub(One, RMin(RDiv(avg_duration, <<5000, 1>>), One)), Dec(3, 10))),
                 RMul(RDiv(RAdd(learning_trend, One), <<2, 1>>), Dec(3, 10)))
    IN  IF RLe(Dec(8, 10), efficiency_score) THEN "expert"
        ELSE IF RLe(Dec(6, 10), efficiency_score) THEN "proficient"
        ELSE IF RLe(Dec(4, 10), efficiency_score) THEN "intermediate"
        ELSE "beginner"

\* lines 317-332: per failed interaction, the time to the first later success on the
\* same element (in ticks; the code reports milliseconds)
ErrorRecoveryTimes(interactions) ==
    LET errors == Failed(interactions)
        Recovers(e, x) == x.timestamp > e.timestamp /\ x.success /\ x.element_id = e.element_id
        recoverable == SelectSeq(errors, LAMBDA e : \E j \in 1..Len(interactions) : Recovers(e, interactions[j]))
        FirstRecovery(e) == interactions[CHOOSE j \in 1..Len(interactions) :
            /\ Recovers(e, interactions[j])
            /\ \A k \in 1..(j - 1) : ~Recovers(e, interactions[k])]
    IN  [n \in 1..Len(recoverable) |-> FirstRecovery(recoverable[n]).timestamp - recoverable[n].timestamp]

\* _detect_efficiency_pattern
DetectEfficiencyPattern(interactions) ==
    IF interactions = <<>> THEN Detected(Zero, EmptyDict)
    ELSE
    LET total_interactions == Len(interactions)
        success_rate == Rat(Len(Successful(interactions)), total_interactions)
        avg_task_duration == MeanOrZero(Durations(Successful(interactions)))
        recovery == ErrorRecoveryTimes(interactions)
        avg_error_recovery_time == MeanOrZero(recovery)
        learning_trend == CalculateLearningTrend(interactions)
        efficiency_level == AssessEfficiencyLevel(success_rate, avg_task_duration, learning_trend)
        confidence == IF total_interactions >= 20 THEN Dec(8, 10) ELSE Dec(5, 10)
    IN  Detected(confidence,
                 [success_rate |-> success_rate,
                  avg_task_duration |-> avg_task_duration,
                  avg_error_recovery_time |-> avg_error_recovery_time,
                  learning_trend |-> learning_trend,
                  efficiency_level |-> efficiency_level,
                  total_interactions |-> total_interactions,
                  error_rate |-> RSub(One, success_rate)])

\* datetime.hour of a timestamp: one tick is one hour and the clock starts at 08:00
HourOf(t) == (8 + t) % 24

\* timedelta(days=7) of _calculate_error_trend, in ticks
ErrorTrendWindow == 168

\* _calculate_error_trend
CalculateErrorTrend(error_interactions, t) ==
    IF Len(error_interactions) < 5 THEN "insufficient_data"
    ELSE
    LET recent_cutoff == t - ErrorTrendWindow
        recent_errors == SelectSeq(error_interactions, LAMBDA e : e.timestamp >= recent_cutoff)
    IN  IF Len(recent_errors) = 0 THEN "improving"
        ELSE IF 2 * Len(recent_errors) > Len(error_interactions) THEN "worsening"
        ELSE "stable"

DayPart(hour) ==
    IF 6 <= hour /\ hour < 12 THEN "morning"
    ELSE IF 12 <= hour /\ hour < 18 THEN "afternoon"
    ELSE IF 18 <= hour /\ hour < 24 THEN "evening"
    ELSE "night"

\* a defaultdict(int) counting key(x) over the x of s (None or falsy keys excluded by the caller)
CountBy(s, key(_)) ==
    [k \in {key(s[i]) : i \in 1..Len(s)} |-> Count(s, LAMBDA x : key(x) = k)]

\* _detect_error_pattern
DetectErrorPattern(interactions, t) ==
    LET error_interactions == Failed(interactions) IN
    IF error_interactions = <<>> THEN Detected(Dec(8, 10), [error_free |-> TRUE])
    ELSE
    LET with_message == SelectSeq(error_interactions, LAMBDA e : e.error_message # None)
        with_element == SelectSeq(error_interactions, LAMBDA e : e.element_type # None)
        error_rate == Rat(Len(error_interactions), Len(interactions))
        confidence == IF Len(error_interactions) >= 5 THEN Dec(7, 10) ELSE Dec(4, 10)
    IN  Detected(confidence,
                 [total_errors |-> Len(error_interactions),
                  error_rate |-> error_rate,
                  common_error_types |-> CountBy(with_message, LAMBDA e : e.error_message),
                  problematic_elements |-> CountBy(with_element, LAMBDA e : e.element_type),
                  error_time_distribution |-> CountBy(error_interactions, LAMBDA e : DayPart(HourOf(e.timestamp))),
                  error_trend |-> CalculateErrorTrend(error_interactions, t),
                  needs_assistance |-> RLt(Dec(3, 10), error_rate)])

\* _detect_accessibility_needs
DetectAccessibilityNeeds(interactions) ==
    LET total_interactions == Len(interactions)
        keyboard_interactions == Count(interactions, LAMBDA i : i.interaction_type = "keyboard")
        voice_interactions == Count(interactions, LAMBDA i : i.interaction_type = "voice")
        keyboard_navigation ==
            IF total_interactions > 0 /\ RLt(Dec(7, 10), Rat(keyboard_interactions, total_interactions))
            THEN 1 ELSE 0
        voice_preference ==
            IF total_interactions > 0 /\ RLt(Dec(5, 10), Rat(voice_interactions, total_interactions))
            THEN 1 ELSE 0
        interaction_speeds == SelectSeq(Durations(interactions), LAMBDA d : d > 0)
        slow_interaction_speed ==
            IF interaction_speeds # <<>> /\ RLt(<<3000, 1>>, Mean(interaction_speeds)) THEN 1 ELSE 0
        action_counts == CountBy(interactions, LAMBDA i : <<i.element_id, i.action>>)
        repetitive_actions ==
            IF \E k \in DOMAIN action_counts : action_counts[k] > 5 THEN 1 ELSE 0
        accessibility_indicators ==
            [high_contrast_usage |-> 0, large_text_preference |-> 0,
             keyboard_navigation |-> keyboard_navigation, voice_preference |-> voice_preference,
             slow_interaction_speed |-> slow_interaction_speed,
             repetitive_actions |-> repetitive_actions]
        accessibility_score ==
            Rat(keyboard_navigation + voice_preference + slow_interaction_speed + repetitive_actions
                    + accessibility_indicators.high_contrast_usage
                    + accessibility_indicators.large_text_preference,
                Cardinality(DOMAIN accessibility_indicators))
        recommendations ==
            (IF keyboard_navigation = 1 THEN <<"enhanced_keyboard_navigation">> ELSE <<>>)
            \o (IF voice_preference = 1 THEN <<"voice_interface_optimization">> ELSE <<>>)
            \o (IF slow_interaction_speed = 1 THEN <<"extended_timeout_settings">> ELSE <<>>)
            \o (IF repetitive_actions = 1 THEN <<"simplified_workflows">> ELSE <<>>)
        confidence == IF total_interactions >= 15 THEN Dec(6, 10) ELSE Dec(3, 10)
    IN  Detected(confidence,
                 [accessibility_score |-> accessibility_score,
                  indicators |-> accessibility_indicators,
                  recommendations |-> recommendations,
                  needs_accessibility_features |-> RLt(Dec(3, 10), accessibility_score)])

\* _detect_device_adaptation
DetectDeviceAdaptation(interactions) ==
    IF \E i \in 1..Len(interactions) : IsNoneContext(interactions[i].context) THEN DetectorRaised
    ELSE
    LET bearing == SelectSeq(interactions, LAMBDA i : Has(i.context, "device_info"))
        device_contexts == [n \in 1..Len(bearing) |-> bearing[n].context.device_info]
    IN  IF device_contexts = <<>> THEN Detected(Zero, EmptyDict)
        ELSE
        LET TypeOf(d) == Get(d, "type", "unknown")
            device_types == CountBy(device_contexts, TypeOf)
            type_order == Distinct([n \in 1..Len(device_contexts) |-> TypeOf(device_contexts[n])])
            sized == SelectSeq(device_contexts, LAMBDA d : Has(d, "screen_width"))
            screen_sizes == [n \in 1..Len(sized) |-> sized[n].screen_width]
            with_input == SelectSeq(device_contexts, LAMBDA d : Has(d, "primary_input"))
            input_methods == CountBy(with_input, LAMBDA d : d.primary_input)
            input_order == Distinct([n \in 1..Len(with_input) |-> with_input[n].primary_input])
            primary_device == FirstMaxInt(type_order, LAMBDA k : device_types[k])
            screen_preference ==
                IF screen_sizes = <<>> THEN "unknown"
                ELSE IF RLt(Mean(screen_sizes), <<768, 1>>) THEN "small"
                ELSE IF RLt(<<1920, 1>>, Mean(screen_sizes)) THEN "large"
                ELSE "medium"
            primary_input ==
                IF input_order = <<>> THEN "unknown"
                ELSE FirstMaxInt(input_order, LAMBDA k : input_methods[k])
            confidence == IF Len(device_contexts) >= 10 THEN Dec(7, 10) ELSE Dec(4, 10)
        IN  Detected(confidence,
                     [primary_device |-> primary_device,
                      device_distribution |-> device_types,
                      screen_preference |-> screen_preference,
                      primary_input_method |-> primary_input,
                      input_method_distribution |-> input_methods,
                      multi_device_user |-> Cardinality(DOMAIN device_types) > 1])

\* self.pattern_detectors, in the dict's order
PatternNames == <<"input_preference", "efficiency_pattern", "error_pattern",
                  "accessibility_needs", "device_adaptation">>

RunDetector(pattern_name, interactions, t) ==
    CASE pattern_name = "input_preference" -> DetectInputPreference(interactions)
      [] pattern_name = "efficiency_pattern" -> DetectEfficiencyPattern(interactions)
      [] pattern_name = "error_pattern" -> DetectErrorPattern(interactions, t)
      [] pattern_name = "accessibility_needs" -> DetectAccessibilityNeeds(interactions)
      [] pattern_name = "device_adaptation" -> DetectDeviceAdaptation(interactions)

-----------------------------------------------------------------------------
(* analyze_user_behavior and what it calls.                                *)

\* a threshold the accessibility detector reaches
confidence_threshold_Low == Dec(6, 10)

\* config.get('confidence_threshold', 0.7)
confidence_threshold == Dec(7, 10)

\* _get_recent_interactions(user_id) with limit=None
GetRecentInteractions(history, user_id, t) ==
    IF ~Has(history, user_id) THEN <<>>
    ELSE LET cutoff_time == t - analysis_window
         IN  SelectSeq(history[user_id], LAMBDA i : i.timestamp >= cutoff_time)

\* _get_default_analysis
GetDefaultAnalysis(profile, t) ==
    [user_id |-> profile.user_id,
     analysis_timestamp |-> t,
     overall_confidence |-> Dec(3, 10),
     user_type |-> "new_user",
     recommendations |-> {"onboarding_assistance", "usage_tracking"},   \* a list; its elements
     insights |-> [insufficient_data |-> TRUE, needs_more_interactions |-> TRUE]]

DataOf(analysis_results, pattern_name) ==
    Get(Get(analysis_results, pattern_name, EmptyDict), "data", EmptyDict)

\* _classify_user_type
ClassifyUserType(analysis_results) ==
    LET efficiency_level == Get(DataOf(analysis_results, "efficiency_pattern"), "efficiency_level", "intermediate")
        primary_input == Get(DataOf(analysis_results, "input_preference"), "primary_preference", "mixed")
        needs_accessibility == Get(DataOf(analysis_results, "accessibility_needs"), "needs_accessibility_features", FALSE)
    IN  IF needs_accessibility THEN "accessibility_user"
        ELSE IF efficiency_level = "expert" THEN "power_user"
        ELSE IF efficiency_level = "beginner" THEN "novice_user"
        ELSE IF primary_input = "voice" THEN "voice_first_user"
        ELSE IF primary_input = "visual" THEN "visual_user"
        ELSE "balanced_user"

\* _generate_recommendations: list(set(recommendations)), as the set
GenerateRecommendations(analysis_results) ==
    LET efficiency_data == DataOf(analysis_results, "efficiency_pattern")
        primary_input == Get(DataOf(analysis_results, "input_preference"), "primary_preference", "mixed")
        accessibility_data == DataOf(analysis_results, "accessibility_needs")
        device_data == DataOf(analysis_results, "device_adaptation")
        acc_recs == Get(accessibility_data, "recommendations", <<>>)
    IN  (IF RLt(Dec(2, 10), Get(efficiency_data, "error_rate", Zero))
            THEN {"error_prevention_enhancement"} ELSE {})
        \cup (IF RLt(<<3000, 1>>, Get(efficiency_data, "avg_task_duration", Zero))
            THEN {"workflow_simplification"} ELSE {})
        \cup (IF primary_input = "voice" THEN {"voice_interface_optimization"}
              ELSE IF primary_input = "visual" THEN {"visual_debugging_enhancement"} ELSE {})
        \cup (IF Get(accessibility_data, "needs_accessibility_features", FALSE)
            THEN {acc_recs[n] : n \in 1..Len(acc_recs)} ELSE {})
        \cup (IF Get(device_data, "multi_device_user", FALSE)
            THEN {"cross_device_synchronization"} ELSE {})
        \cup (IF Get(device_data, "screen_preference", None) = "small"
            THEN {"mobile_optimization"} ELSE {})

\* the threshold test made strict: a detector of confidence exactly at the threshold is dropped
SynthesizeAnalysis_Strict(analysis_results, profile, t) ==
    LET confidences == [n \in 1..Len(PatternNames) |-> analysis_results[PatternNames[n]].confidence]
        kept == {name \in DOMAIN analysis_results :
                    RLt(confidence_threshold, analysis_results[name].confidence)}
    IN  [user_id |-> profile.user_id,
         analysis_timestamp |-> t,
         overall_confidence |-> RDiv(RSumSeq(confidences), <<Len(confidences), 1>>),
         user_type |-> ClassifyUserType(analysis_results),
         recommendations |-> GenerateRecommendations(analysis_results),
         insights |-> [name \in kept |-> analysis_results[name].data]]

\* _synthesize_analysis
SynthesizeAnalysis(analysis_results, profile, t) ==
    LET confidences == [n \in 1..Len(PatternNames) |-> analysis_results[PatternNames[n]].confidence]
        kept == {name \in DOMAIN analysis_results :
                    RLe(confidence_threshold, analysis_results[name].confidence)}
    IN  [user_id |-> profile.user_id,
         analysis_timestamp |-> t,
         overall_confidence |-> RDiv(RSumSeq(confidences), <<Len(confidences), 1>>),
         user_type |-> ClassifyUserType(analysis_results),
         recommendations |-> GenerateRecommendations(analysis_results),
         insights |-> [name \in kept |-> analysis_results[name].data]]

\* _update_user_profile
UpdateUserProfile(profile, analysis, t) ==
    LET insights == Get(analysis, "insights", EmptyDict)
        p1 == [profile EXCEPT !.last_updated = t]
        p2 == IF Has(insights, "input_preference")
              THEN [p1 EXCEPT
                      !.preferred_input_methods = OKeys(Get(insights["input_preference"], "preference_scores", <<>>)),
                      !.interaction_patterns = Update(@, insights["input_preference"])]
              ELSE p1
        p3 == IF Has(insights, "efficiency_pattern")
              THEN [p2 EXCEPT !.efficiency_metrics = Update(@, insights["efficiency_pattern"])]
              ELSE p2
        p4 == IF Has(insights, "accessibility_needs")
              THEN [p3 EXCEPT !.accessibility_needs = Update(@, insights["accessibility_needs"])]
              ELSE p3
    IN  IF Has(insights, "device_adaptation")
        THEN [p4 EXCEPT !.device_preferences = Update(@, insights["device_adaptation"])]
        ELSE p4

\* get_or_create_user_profile: the profiles map after the call
GetOrCreateUserProfile(profiles, user_id, t) ==
    IF Has(profiles, user_id) THEN profiles ELSE Put(profiles, user_id, NewUserProfile(user_id, t))

\* the freshness comparison turned around: an entry counts as fresh once it is older
\* than the TTL
CacheFresh_Reversed(cache, cache_key, t) ==
    Has(cache, cache_key) /\ t - cache[cache_key].timestamp > cache_ttl

\* the freshness comparison made inclusive: an entry of age exactly TTL is still served
CacheFresh_Inclusive(cache, cache_key, t) ==
    Has(cache, cache_key) /\ t - cache[cache_key].timestamp <= cache_ttl

\* lines 184-187: the cache entry under the key is served
CacheFresh(cache, cache_key, t) ==
    Has(cache, cache_key) /\ t - cache[cache_key].timestamp < cache_ttl

\* lines 201-207: every detector runs; one that raises yields confidence 0 and no data
DetectorRuns(interactions, t) ==
    [input_preference |-> DetectInputPreference(interactions),
     efficiency_pattern |-> DetectEfficiencyPattern(interactions),
     error_pattern |-> DetectErrorPattern(interactions, t),
     accessibility_needs |-> DetectAccessibilityNeeds(interactions),
     device_adaptation |-> DetectDeviceAdaptation(interactions)]
AnalysisResults(runs) ==
    [input_preference |-> runs.input_preference.result,
     efficiency_pattern |-> runs.efficiency_pattern.result,
     error_pattern |-> runs.error_pattern.result,
     accessibility_needs |-> runs.accessibility_needs.result,
     device_adaptation |-> runs.device_adaptation.result]
DetectorsFailed(runs) == {name \in DOMAIN runs : runs[name].raised}

\* the threshold test off by one: a window one short of the minimum is analysed
BelowThreshold_OffByOne(window) == window < min_interactions_for_analysis - 1

\* line 195
BelowThreshold(window) == window < min_interactions_for_analysis

\* observer: what a call saw and did.  entry_age is the age of the entry the cache
\* held under the call's key when the call began (-1: no entry); recorded counts the
\* record_interaction calls made before it.
CallRecord(user_id, context, source, payload, run, failed, window) ==
    LET cache_key == CacheKey(user_id, context) IN
    [op |-> "analyze_user_behavior", user_id |-> user_id, context |-> context, time |-> now,
     source |-> source, returned |-> payload, detectors_run |-> run,
     detectors_failed |-> failed,
     entry_age |-> IF Has(analysis_cache, cache_key)
                   THEN now - analysis_cache[cache_key].timestamp ELSE -1,
     window_size |-> window, recorded |-> next_id - 1]

\* lines 211-221: the analysis is cached, the profile updated, the analysis returned
ComputedOutcome(profiles, user_id, context, window, runs, comprehensive_analysis) ==
    [profiles |-> Put(profiles, user_id,
                      UpdateUserProfile(profiles[user_id], comprehensive_analysis, now)),
     cache |-> Put(analysis_cache, CacheKey(user_id, context),
                   [timestamp |-> now, analysis |-> comprehensive_analysis]),
     call |-> CallRecord(user_id, context, "computed", comprehensive_analysis,
                         DOMAIN runs, DetectorsFailed(runs), window)]

\* analyze_user_behavior(user_id, context) on the profiles map given: the profiles and the
\* cache it leaves, and the record of the call
AnalyzeOutcome(profiles_before, user_id, context) ==
    LET cache_key == CacheKey(user_id, context)
        recent_interactions == GetRecentInteractions(interaction_history, user_id, now)
        window == Len(recent_interactions)
        profiles == GetOrCreateUserProfile(profiles_before, user_id, now)
        profile == profiles[user_id]
    IN
    IF CacheFresh(analysis_cache, cache_key, now)
    THEN LET entry == analysis_cache[cache_key] IN
         [profiles |-> profiles_before, cache |-> analysis_cache,
          call |-> IF IsAnalysisEntry(entry)
                   THEN CallRecord(user_id, context, "cache", entry.analysis, {}, {}, window)
                   ELSE CallRecord(user_id, context, "raised", [raised |-> "KeyError"], {}, {}, window)]
    ELSE IF BelowThreshold(window)
    THEN [profiles |-> profiles, cache |-> analysis_cache,
          call |-> CallRecord(user_id, context, "default", GetDefaultAnalysis(profile, now), {}, {}, window)]
    ELSE ComputedOutcome(profiles, user_id, context, window,
                         DetectorRuns(recent_interactions, now),
                         SynthesizeAnalysis(AnalysisResults(DetectorRuns(recent_interactions, now)),
                                            profile, now))

\* what the call leaves behind; calls is the observer
AnalyzeEffect(outcome) ==
    /\ user_profiles' = outcome.profiles
    /\ analysis_cache' = outcome.cache
    /\ calls' = Append(calls, outcome.call)
    /\ UNCHANGED <<now, next_id, interaction_history, session_data, arrivals,
                   engine_vars, integrate_vars>>

AnalyzeAnswered(outcome) == AnalyzeEffect(outcome) /\ last_call' = outcome.call

\* analyze_user_behavior(user_id, context)
AnalyzeUserBehavior(user_id, context) ==
    AnalyzeAnswered(AnalyzeOutcome(user_profiles, user_id, context))

\* bool(x) of a list or a dict
NotEmpty(x) == DOMAIN x # {}

\* the completeness taken over the four fields an analysis can fill
CalculateProfileCompleteness_FilledFields(profile) ==
    LET completeness_factors ==
            <<NotEmpty(profile.preferred_input_methods), NotEmpty(profile.interaction_patterns),
              NotEmpty(profile.efficiency_metrics), NotEmpty(profile.device_preferences)>>
    IN  Rat(Count(completeness_factors, LAMBDA factor : factor), Len(completeness_factors))

\* _calculate_profile_completeness
CalculateProfileCompleteness(profile) ==
    LET completeness_factors ==
            <<NotEmpty(profile.preferred_input_methods), NotEmpty(profile.interaction_patterns),
              NotEmpty(profile.efficiency_metrics), NotEmpty(profile.device_preferences),
              NotEmpty(profile.ui_preferences)>>
    IN  Rat(Count(completeness_factors, LAMBDA factor : factor), Len(completeness_factors))

\* UserProfile.to_dict(): the datetimes as text, the input methods by value
ProfileToDict(profile) ==
    [profile EXCEPT !.created_at = <<"isoformat", @>>, !.last_updated = <<"isoformat", @>>]

\* lines 760-765: the dict get_user_insights returns, or the KeyError of the analysis
InsightsOf(outcome, user_id) ==
    IF outcome.call.source = "raised"
    THEN [op |-> "get_user_insights", user_id |-> user_id, raised |-> TRUE]
    ELSE [op |-> "get_user_insights", user_id |-> user_id, raised |-> FALSE,
          returned |-> [user_profile |-> ProfileToDict(outcome.profiles[user_id]),
                        recent_analysis |-> outcome.call.returned,
                        interaction_count |-> Len(Get(interaction_history, user_id, <<>>)),
                        profile_completeness |-> CalculateProfileCompleteness(outcome.profiles[user_id])]]

InsightsAnswered(outcome, user_id) ==
    AnalyzeEffect(outcome) /\ last_call' = InsightsOf(outcome, user_id)

\* get_user_insights(user_id)
GetUserInsights(user_id) ==
    InsightsAnswered(AnalyzeOutcome(GetOrCreateUserProfile(user_profiles, user_id, now), user_id, None),
                     user_id)

\* the clock advances
Tick ==
    /\ now < MaxTime
    /\ now' = now + 1
    /\ UNCHANGED <<analyzer_vars, engine_vars, integrate_vars>>

-----------------------------------------------------------------------------
(* EnhancedDecisionEngine: requests.                                       *)
(* An Optional value is <<>> (None) or <<v>>.  A transcript is a sequence  *)
(* of words; `keyword in transcript` is membership of the keyword among    *)
(* the words, and the CJK keywords are written in pinyin.                  *)

NoneValue == <<>>
Some(v) == <<v>>
IsNone(o) == o = <<>>
ValueOf(o) == o[1]

\* str.lower(), word by word
LowerWord(w) ==
    CASE w = "Change" -> "change"
      [] w = "Color" -> "color"
      [] w = "Click" -> "click"
      [] OTHER -> w
Lower(words) == [k \in 1..Len(words) |-> LowerWord(words[k])]

Contains(words, keyword) == \E k \in 1..Len(words) : words[k] = keyword
AnyKeyword(words, keywords) == \E keyword \in keywords : Contains(words, keyword)

ModifyKeywords == {"xiugai", "gaibian", "change", "modify"}
ColorKeywords == {"yanse", "color"}
SelectKeywords == {"xuanze", "dianji", "select", "click"}

FrameworkPriority == {"stagewise", "livekit", "smartui", "balanced"}
WeightedFrameworks == {"stagewise", "livekit", "smartui"}
DecisionStrategy == {"rule_based", "ml_based", "hybrid", "heuristic", "smartui_enhanced"}

\* device_info dicts
Desktop == [screen_width |-> 1920, is_mobile |-> FALSE]
Phone == [screen_width |-> 400, is_mobile |-> TRUE]
WideScreen == [screen_width |-> 2560, is_mobile |-> FALSE]

\* user_history entries
HistoryEntry(type, completed) == [type |-> type, completed |-> completed]
VoiceHistory == <<HistoryEntry("voice", TRUE), HistoryEntry("voice", FALSE)>>
VisualHistory == <<HistoryEntry("visual", FALSE), HistoryEntry("visual", FALSE), HistoryEntry("task", FALSE)>>
TaskHistory == <<HistoryEntry("task", TRUE), HistoryEntry("task", FALSE), HistoryEntry("task", FALSE)>>

\* selected_element dicts
SmallElement == [id |-> "btn"]
LargeElement == [id |-> "form", tag |-> "form", cls |-> "wide", x |-> "0", y |-> "0",
                 w |-> "800", h |-> "600", role |-> "form"]

DecisionContext(user_id, device_info, user_history, voice_context, visual_context) ==
    [user_id |-> user_id, device_info |-> device_info, user_history |-> user_history,
     voice_context |-> voice_context, visual_context |-> visual_context]

VoiceContext(transcript, confidence) == Some([transcript |-> transcript, confidence |-> confidence])
VisualContext(selected_element) == Some([selected_element |-> selected_element])

\* input_data of a voice command, as process_voice_command builds it
VoiceInput(command, intent) ==
    [input_type |-> "voice", command |-> command, intent |-> intent,
     debug_action |-> "", selected_element |-> Some(EmptyDict)]
\* input_data of a visual debug message, as process_visual_debug builds it
VisualInput(debug_action, selected_element) ==
    [input_type |-> "visual_debug", command |-> Some(<<>>), intent |-> EmptyDict,
     debug_action |-> debug_action, selected_element |-> selected_element]
OtherInput ==
    [input_type |-> "unknown", command |-> Some(<<>>), intent |-> EmptyDict,
     debug_action |-> "", selected_element |-> Some(EmptyDict)]

Request(context, input_data) == [context |-> context, input_data |-> input_data]

VoiceRequest(user_id, device_info, words, confidence, intent) ==
    Request(DecisionContext(user_id, device_info, <<>>, VoiceContext(Some(words), confidence), NoneValue),
            VoiceInput(Some(words), intent))

VisualRequest(user_id, device_info, debug_action, element) ==
    Request(DecisionContext(user_id, device_info, <<>>, NoneValue, VisualContext(Some(element))),
            VisualInput(debug_action, Some(element)))

\* the requests the model draws from; the last three carry a None where the payload
\* had a null transcript or element
Requests ==
    { VoiceRequest(UserA, Desktop, <<"Change", "color">>, Dec(9, 10), [target |-> "header", value |-> "red"]),
      VoiceRequest(UserA, Phone, <<"click">>, Dec(1, 2), EmptyDict),
      VoiceRequest(UserA, Desktop, <<"hello">>, Zero, EmptyDict),
      VisualRequest(UserA, Desktop, "inspect", LargeElement),
      VisualRequest(UserA, WideScreen, "modify", SmallElement),
      Request(DecisionContext(UserA, Desktop, VoiceHistory, NoneValue, NoneValue), OtherInput),
      Request(DecisionContext(UserA, Phone, VisualHistory, NoneValue, NoneValue), OtherInput),
      Request(DecisionContext(UserA, Desktop, TaskHistory, NoneValue, NoneValue), OtherInput),
      Request(DecisionContext(UserA, Desktop, <<>>, VoiceContext(NoneValue, Dec(9, 10)), NoneValue),
              VoiceInput(NoneValue, EmptyDict)),
      Request(DecisionContext(UserA, Desktop, <<>>, NoneValue, VisualContext(NoneValue)),
              VisualInput("inspect", Some(SmallElement))),
      Request(DecisionContext(UserA, Desktop, <<>>, NoneValue, NoneValue),
              VisualInput("inspect", NoneValue)) }

-----------------------------------------------------------------------------
(* EnhancedDecisionEngine: the engine's own UserBehaviorAnalyzer.          *)

CountType(user_history, type) == Count(user_history, LAMBDA h : h.type = type)

\* _analyze_interaction_patterns
AnalyzeInteractionPatterns(context) ==
    LET total == Len(context.user_history)
        voice_ratio == Rat(CountType(context.user_history, "voice"), total)
        visual_ratio == Rat(CountType(context.user_history, "visual"), total)
    IN  [preferred_input_method |->
             IF total = 0 THEN "mixed"
             ELSE IF RLt(Dec(7, 10), voice_ratio) THEN "voice"
             ELSE IF RLt(Dec(7, 10), visual_ratio) THEN "visual"
             ELSE "mixed",
         interaction_frequency |-> 0,
         session_duration |-> 0,
         error_rate |-> 0,
         feature_usage |-> EmptyDict]

\* _analyze_device_preferences
AnalyzeDevicePreferences(context) ==
    LET width == context.device_info.screen_width IN
    [screen_size_preference |-> IF width < 768 THEN "small" ELSE IF width > 1920 THEN "large" ELSE "medium",
     input_method_preference |-> "mixed",
     performance_priority |-> IF width < 768 THEN "performance"
                              ELSE IF width > 1920 THEN "features" ELSE "balanced",
     accessibility_features |-> <<>>]

\* _analyze_efficiency_metrics
AnalyzeEfficiencyMetrics(context) ==
    LET completed_tasks == Count(context.user_history, LAMBDA h : h.completed)
        total_tasks == CountType(context.user_history, "task")
    IN  [task_completion_rate |-> IF total_tasks > 0 THEN Rat(completed_tasks, total_tasks)
                                  ELSE Dec(85, 100),
         average_task_time |-> 120,
         error_recovery_time |-> 30,
         feature_discovery_rate |-> Dec(6, 10)]

NewEngineProfile ==
    [preferences |-> EmptyDict, interaction_patterns |-> EmptyDict, device_preferences |-> EmptyDict,
     accessibility_needs |-> EmptyDict, efficiency_metrics |-> EmptyDict]

\* UserBehaviorAnalyzer.analyze_user_behavior: the profiles after the call
EngineAnalyzeUserBehavior(profiles, context) ==
    LET profile == Get(profiles, context.user_id, NewEngineProfile) IN
    Put(profiles, context.user_id,
        [profile EXCEPT
            !.interaction_patterns = Update(@, AnalyzeInteractionPatterns(context)),
            !.device_preferences = Update(@, AnalyzeDevicePreferences(context)),
            !.efficiency_metrics = Update(@, AnalyzeEfficiencyMetrics(context))])

-----------------------------------------------------------------------------
(* EnhancedDecisionEngine: the five strategies.  A strategy yields         *)
(* [raised |-> FALSE, decision |-> ...] or [raised |-> TRUE, exception].   *)

Action(type, target_element, modification_type, modification_data) ==
    [type |-> type, target_element |-> target_element,
     modification_type |-> modification_type, modification_data |-> modification_data]

DecisionResult(strategy_used, confidence, primary_framework, actions, metadata) ==
    [strategy_used |-> strategy_used, confidence |-> confidence,
     primary_framework |-> primary_framework, actions |-> actions, metadata |-> metadata]

Returned(decision) == [raised |-> FALSE, decision |-> decision]
Raised(exception) == [raised |-> TRUE, exception |-> exception]

\* context.smartui_profile is the profile dict the user analyzer holds, not a copy
ProfileRef(user_id) == [profile_of |-> user_id]

\* _rule_based_decision
RuleBasedDecision(context, input_data) ==
    LET Rule(confidence, primary_framework, actions) ==
            Returned(DecisionResult("rule_based", confidence, primary_framework, actions,
                                    [rule_matches |-> Len(actions)]))
        NoMatch == Rule(Dec(6, 10), "balanced", <<>>)
    IN
    IF input_data.input_type = "voice"
    THEN IF IsNone(input_data.command)
         THEN Raised("AttributeError")          \* None.lower()
         ELSE LET transcript == Lower(ValueOf(input_data.command))
                  intent == input_data.intent
              IN  IF AnyKeyword(transcript, ModifyKeywords)
                  THEN IF AnyKeyword(transcript, ColorKeywords)
                       THEN Rule(Dec(8, 10), "livekit",
                                 <<Action("modify_style", Get(intent, "target", "button"), "style",
                                          [color |-> Get(intent, "value", "blue")])>>)
                       ELSE NoMatch
                  ELSE IF AnyKeyword(transcript, SelectKeywords)
                       THEN Rule(Dec(75, 100), "livekit",
                                 <<Action("select_element", Get(intent, "target", "button"),
                                          "interaction", [action |-> "click"])>>)
                       ELSE NoMatch
    ELSE IF input_data.input_type = "visual_debug"
    THEN IF input_data.debug_action \in {"inspect", "modify"} /\ IsNone(input_data.selected_element)
         THEN Raised("AttributeError")          \* None.get('id', '')
         ELSE LET selected_element == ValueOf(input_data.selected_element) IN
              IF input_data.debug_action = "inspect"
              THEN Rule(Dec(9, 10), "stagewise",
                        <<Action("show_inspector", Get(selected_element, "id", ""), "debug",
                                 [show_properties |-> TRUE, highlight |-> TRUE])>>)
              ELSE IF input_data.debug_action = "modify"
              THEN Rule(Dec(85, 100), "stagewise",
                        <<Action("enable_edit_mode", Get(selected_element, "id", ""), "debug",
                                 [edit_mode |-> TRUE])>>)
              ELSE NoMatch
    ELSE NoMatch

\* len(str) of a transcript: the characters of its words and the blanks between them
WordLen(w) == CASE w \in {"Change"} -> 6 [] OTHER -> 5
RECURSIVE CharLen(_)
CharLen(words) ==
    IF words = <<>> THEN 0
    ELSE WordLen(words[1]) + (IF Len(words) > 1 THEN 1 ELSE 0) + CharLen(Tail(words))

\* truthiness of an Optional[dict]
Truthy(o) == ~IsNone(o) /\ DOMAIN ValueOf(o) # {}

\* _extract_features raises TypeError on len(None)
ExtractRaises(context) ==
    \/ (Truthy(context.voice_context) /\ IsNone(ValueOf(context.voice_context).transcript))
    \/ (Truthy(context.visual_context) /\ IsNone(ValueOf(context.visual_context).selected_element))

\* _extract_features, when it does not raise; make_decision has set context.smartui_profile
\* to the (non-empty) profile, so the user features are always present
ExtractFeatures(context, profile) ==
    LET voice == IF Truthy(context.voice_context)
                 THEN [voice_confidence |-> ValueOf(context.voice_context).confidence,
                       voice_length |-> Rat(CharLen(ValueOf(ValueOf(context.voice_context).transcript)), 100)]
                 ELSE EmptyDict
        visual == IF Truthy(context.visual_context)
                  THEN [visual_complexity |->
                            Rat(Cardinality(DOMAIN ValueOf(ValueOf(context.visual_context).selected_element)), 10)]
                  ELSE EmptyDict
        user == [user_efficiency |-> Get(profile.efficiency_metrics, "task_completion_rate", Dec(1, 2)),
                 user_experience |-> Rat(Len(context.user_history), 100)]
        device == [screen_size |-> RMin(Rat(context.device_info.screen_width, 1920), One),
                   is_mobile |-> IF context.device_info.is_mobile THEN One ELSE Zero]
    IN  Update(Update(Update(voice, visual), user), device)

\* 0.7 + np.random.random() * 0.2, for the drawn value random in [0, 1)
MLConfidence(random) == RAdd(Dec(7, 10), RMul(random, Dec(2, 10)))

\* _ml_based_decision; random is the value np.random.random() returns
MLBasedDecision(context, profile, input_data, random) ==
    IF ExtractRaises(context) THEN Raised("TypeError")
    ELSE
    LET features == ExtractFeatures(context, profile)
        ML(primary_framework, action) ==
            Returned(DecisionResult("ml_based", MLConfidence(random), primary_framework, <<action>>,
                                    [features |-> features, model_version |-> "1.0"]))
    IN  IF RLt(Dec(8, 10), Get(features, "voice_confidence", Zero))
        THEN ML("livekit", Action("voice_response", "voice_interface", "interaction",
                                  [response |-> "voice_command_processed"]))
        ELSE IF RLt(Dec(7, 10), Get(features, "visual_complexity", Zero))
        THEN ML("stagewise", Action("simplify_interface", "main_container", "layout",
                                    [complexity_reduction |-> TRUE]))
        ELSE ML("smartui", Action("adaptive_ui", "adaptive_container", "smart_adaptation",
                                  [user_profile |-> ProfileRef(context.user_id)]))


\* the two confidences added without their weights
HybridConfidence_Sum(rule_confidence, ml_confidence) == RAdd(rule_confidence, ml_confidence)

\* line 467
HybridConfidence(rule_confidence, ml_confidence) ==
    RAdd(RMul(rule_confidence, Dec(6, 10)), RMul(ml_confidence, Dec(4, 10)))

\* the secondary result's actions put in front of the primary's
MergeActions_SecondaryFirst(primary_actions, secondary_actions) ==
    secondary_actions \o
    SelectSeq(primary_actions, LAMBDA a : ~\E k \in 1..Len(secondary_actions) : secondary_actions[k] = a)

\* lines 478-481: primary.actions + [a for a in secondary.actions if a not in primary.actions]
MergeActions(primary_actions, secondary_actions) ==
    primary_actions \o
    SelectSeq(secondary_actions, LAMBDA a : ~\E k \in 1..Len(primary_actions) : primary_actions[k] = a)

\* _hybrid_decision: the rule engine runs first, then the ML engine; an exception of
\* either leaves the method
HybridDecision(context, profile, input_data, random) ==
    LET rule == RuleBasedDecision(context, input_data) IN
    IF rule.raised THEN rule
    ELSE
    LET ml == MLBasedDecision(context, profile, input_data, random) IN
    IF ml.raised THEN ml
    ELSE
    LET rule_decision == rule.decision
        ml_decision == ml.decision
        rule_first == RLt(ml_decision.confidence, rule_decision.confidence)
        primary_decision == IF rule_first THEN rule_decision ELSE ml_decision
        secondary_decision == IF rule_first THEN ml_decision ELSE rule_decision
    IN  Returned(DecisionResult("hybrid",
            HybridConfidence(rule_decision.confidence, ml_decision.confidence),
            primary_decision.primary_framework,
            MergeActions(primary_decision.actions, secondary_decision.actions),
            [rule_confidence |-> rule_decision.confidence,
             ml_confidence |-> ml_decision.confidence,
             combination_weight |-> Dec(6, 10)]))

\* _smartui_enhanced_decision
SmartUIEnhancedDecision(context, profile) ==
    LET preferred_input == Get(Get(profile, "interaction_patterns", EmptyDict),
                               "preferred_input_method", "mixed")
        efficiency_metrics == Get(profile, "efficiency_metrics", EmptyDict)
        device_preferences == Get(profile, "device_preferences", EmptyDict)
        by_input ==
            IF preferred_input = "voice"
            THEN [confidence |-> Dec(9, 10), primary_framework |-> "livekit",
                  action |-> Action("enhance_voice_ui", "voice_interface", "enhancement",
                                    [voice_priority |-> TRUE, visual_hints |-> TRUE, speech_feedback |-> TRUE])]
            ELSE IF preferred_input = "visual"
            THEN [confidence |-> Dec(85, 100), primary_framework |-> "stagewise",
                  action |-> Action("enhance_visual_ui", "visual_interface", "enhancement",
                                    [visual_priority |-> TRUE, debug_tools |-> TRUE, element_highlighting |-> TRUE])]
            ELSE [confidence |-> Dec(8, 10), primary_framework |-> "smartui",
                  action |-> Action("balanced_ui", "main_interface", "enhancement",
                                    [multimodal |-> TRUE, adaptive_switching |-> TRUE, context_awareness |-> TRUE])]
        by_efficiency ==
            IF RLt(Get(efficiency_metrics, "task_completion_rate", Dec(85, 100)), Dec(7, 10))
            THEN <<Action("simplify_workflow", "workflow_container", "optimization",
                          [reduce_steps |-> TRUE, add_guidance |-> TRUE, error_prevention |-> TRUE])>>
            ELSE <<>>
        by_device ==
            IF Get(device_preferences, "screen_size_preference", "medium") = "small"
            THEN <<Action("mobile_optimization", "responsive_container", "responsive",
                          [mobile_first |-> TRUE, touch_friendly |-> TRUE, compact_layout |-> TRUE])>>
            ELSE <<>>
    IN  Returned(DecisionResult("smartui_enhanced", by_input.confidence, by_input.primary_framework,
                                <<by_input.action>> \o by_efficiency \o by_device,
                                [user_profile |-> ProfileRef(context.user_id),
                                 personalization_level |-> "high"]))

\* _heuristic_decision at time t
HeuristicDecision(context, t) ==
    LET work_hours == 9 <= HourOf(t) /\ HourOf(t) <= 17
        mobile == context.device_info.is_mobile
        actions ==
            (IF work_hours
             THEN <<Action("work_mode_ui", "main_container", "theme",
                           [theme |-> "professional", distractions |-> "minimal"])>>
             ELSE <<>>)
            \o (IF mobile
                THEN <<Action("mobile_ui", "responsive_container", "responsive",
                              [mobile_optimized |-> TRUE])>>
                ELSE <<>>)
        confidence == IF mobile THEN Dec(8, 10) ELSE IF work_hours THEN Dec(7, 10) ELSE Dec(5, 10)
    IN  Returned(DecisionResult("heuristic", confidence, "balanced", actions,
                                [heuristics_applied |-> Len(actions)]))

-----------------------------------------------------------------------------
(* EnhancedDecisionEngine: learning and make_decision.                     *)

InitialWeights == [stagewise |-> Dec(3, 10), livekit |-> Dec(3, 10), smartui |-> Dec(4, 10)]

WeightSum(weights) == RAdd(RAdd(weights.stagewise, weights.livekit), weights.smartui)

\* lines 663-671: the weight of the decision's framework is boosted or reduced
AdjustWeights(weights, decision) ==
    LET Scale(factor) ==
            IF decision.primary_framework \in DOMAIN weights
            THEN [weights EXCEPT ![decision.primary_framework] = RMul(@, factor)]
            ELSE weights
    IN  IF RLt(Dec(8, 10), decision.confidence) THEN Scale(Dec(105, 100))
        ELSE IF RLt(decision.confidence, Dec(5, 10)) THEN Scale(Dec(95, 100))
        ELSE weights

\* the adjusted weights are stored without the renormalization of lines 674-676
LearnFromDecision_NotRenormalized(weights, decision) == AdjustWeights(weights, decision)

\* _learn_from_decision: the weights after the call
LearnFromDecision(weights, decision) ==
    LET adjusted == AdjustWeights(weights, decision)
        total_weight == WeightSum(adjusted)
    IN  [framework \in DOMAIN adjusted |-> RDiv(adjusted[framework], total_weight)]

\* the values np.random.random() is drawn from; with 0.25 the ML confidence is 0.75,
\* the confidence of the rule engine's select rule
RandomDraws == {Zero, Dec(1, 4), Dec(19, 20)}

\* lines 312-321
RunStrategy(context, profile, input_data, random, t) ==
    CASE strategy = "rule_based" -> RuleBasedDecision(context, input_data)
      [] strategy = "ml_based" -> MLBasedDecision(context, profile, input_data, random)
      [] strategy = "hybrid" -> HybridDecision(context, profile, input_data, random)
      [] strategy = "smartui_enhanced" -> SmartUIEnhancedDecision(context, profile)
      [] OTHER -> HeuristicDecision(context, t)

\* a threshold the heuristic strategy reaches without an action
decision_confidence_threshold_Half == Dec(5, 10)

\* EnhancedDecisionEngine.confidence_threshold: config.get('confidence_threshold', 0.7)
decision_confidence_threshold == Dec(7, 10)

UIModificationMessage(action) ==
    [source |-> "decision_engine", target_element |-> action.target_element,
     modification_type |-> action.modification_type, modification_data |-> action.modification_data]

\* process_voice_command and process_visual_debug after their make_decision call: the
\* message for a decision at or above the threshold, None below it
ProcessCommand(outcome) ==
    IF outcome.raised THEN outcome
    ELSE IF RLe(decision_confidence_threshold, outcome.decision.confidence)
    THEN IF outcome.decision.actions = <<>>
         THEN Raised("IndexError")                  \* decision.actions[0]
         ELSE [raised |-> FALSE, message |-> Some(UIModificationMessage(outcome.decision.actions[1]))]
    ELSE [raised |-> FALSE, message |-> NoneValue]

ErrorResponse(error) == [success |-> FALSE, error |-> error]

\* main.py, _handle_voice_command and _handle_visual_debug from the engine call on: the
\* response sent to the caller.  UIModificationMessage has no to_dict method, so
\* building the success response raises, and the except branch answers.
HandleCommand(input_type, outcome) ==
    LET processed == ProcessCommand(outcome) IN
    IF processed.raised THEN ErrorResponse(processed.exception)
    ELSE IF ~IsNone(processed.message) THEN ErrorResponse("AttributeError")
    ELSE ErrorResponse(IF input_type = "voice" THEN "Unable to process voice command"
                       ELSE "Unable to process visual debug command")

\* the response to a request: voice and visual debug requests come through the
\* handlers of main.py, the others call make_decision directly
ResponseTo(request, outcome) ==
    IF request.input_data.input_type \in {"voice", "visual_debug"}
    THEN HandleCommand(request.input_data.input_type, outcome)
    ELSE [op |-> "none"]

\* make_decision(context, input_data); random is what np.random.random() returns if asked
MakeDecision(request, random) ==
    LET context == request.context
        profiles == EngineAnalyzeUserBehavior(engine_profiles, context)
        outcome == RunStrategy(context, profiles[context.user_id], request.input_data, random, now)
        call == [request |-> request, strategy |-> strategy, learning |-> learning_enabled,
                 time |-> now, weights_before |-> framework_weights]
    IN  /\ engine_profiles' = profiles
        /\ IF outcome.raised
           THEN /\ decision_log' = Append(decision_log,
                        Update(call, [outcome |-> "raised", exception |-> outcome.exception,
                                      response |-> ResponseTo(request, outcome)]))
                /\ UNCHANGED <<decision_history, framework_weights>>
           ELSE LET result == Update(outcome.decision,
                                     [decision_id |-> Len(decision_log) + 1, timestamp |-> now])
                IN  /\ decision_history' = Append(decision_history, result)
                    /\ framework_weights' = IF learning_enabled
                                            THEN LearnFromDecision(framework_weights, result)
                                            ELSE framework_weights
                    /\ decision_log' = Append(decision_log,
                            Update(call, [outcome |-> "returned", result |-> result,
                                          response |-> ResponseTo(request, outcome)]))
        /\ UNCHANGED <<now, analyzer_vars, strategy, learning_enabled, tasks, integrate_vars>>

-----------------------------------------------------------------------------
(* Floating point.  A float is a rational with at most MantissaBits        *)
(* significant bits and a power of two as denominator.  Every operation    *)
(* rounds its exact result to the nearest float, ties to even, as the      *)
(* IEEE 754 operations of a Python float do with 53 bits.  Exponents are   *)
(* not bounded.                                                            *)

\* the exponent of a power of two
Log2(d) == CHOOSE k \in 0..30 : 2 ^ k = d

\* N / D rounded to the nearest integer, ties to even
RoundHalfEven(N, D) ==
    LET q == N \div D
        r == N % D
    IN  IF 2 * r > D \/ (2 * r = D /\ q % 2 = 1) THEN q + 1 ELSE q

\* the integer N rounded to MantissaBits significant bits
RoundBits(N) ==
    IF N < 2 ^ MantissaBits THEN N
    ELSE LET s == CHOOSE s \in 1..(30 - MantissaBits) :
                      /\ 2 ^ (MantissaBits - 1) <= N \div 2 ^ s
                      /\ N \div 2 ^ s < 2 ^ MantissaBits
         IN  RoundHalfEven(N, 2 ^ s) * 2 ^ s

\* the float nearest to the positive rational x: a literal such as 1.05, or a quotient
FloatOf(x) ==
    LET k == CHOOSE k \in 0..(2 * MantissaBits) :
                 /\ 2 ^ (MantissaBits - 1) * x[2] <= x[1] * 2 ^ k
                 /\ x[1] * 2 ^ k < 2 ^ MantissaBits * x[2]
    IN  Rat(RoundHalfEven(x[1] * 2 ^ k, x[2]), 2 ^ k)

\* a + b
FloatAdd(a, b) ==
    LET D == IF a[2] < b[2] THEN b[2] ELSE a[2]
    IN  Rat(RoundBits(a[1] * (D \div a[2]) + b[1] * (D \div b[2])), D)

\* a * b
FloatMul(a, b) == Rat(RoundBits(a[1] * b[1]), a[2] * b[2])

\* a / b: the quotient of the significands, rounded, and the difference of the exponents
FloatDiv(a, b) ==
    LET q == FloatOf(<<a[1], b[1]>>)
        E == Log2(q[2]) + Log2(a[2]) - Log2(b[2])
    IN  IF E >= 0 THEN Rat(q[1], 2 ^ E) ELSE Rat(q[1] * 2 ^ (0 - E), 1)

\* the weights of __init__ as floats
InitialFloatWeights == [framework \in DOMAIN InitialWeights |-> FloatOf(InitialWeights[framework])]

\* lines 663-671 in floating point
AdjustFloatWeights(weights, decision) ==
    LET framework == decision.primary_framework
        boosted == RLt(Dec(8, 10), decision.confidence)
        reduced == ~boosted /\ RLt(decision.confidence, Dec(5, 10))
    IN  IF framework \in DOMAIN weights /\ boosted
        THEN [weights EXCEPT ![framework] = FloatMul(@, FloatOf(Dec(105, 100)))]
        ELSE IF framework \in DOMAIN weights /\ reduced
        THEN [weights EXCEPT ![framework] = FloatMul(@, FloatOf(Dec(95, 100)))]
        ELSE weights

\* sum(self.framework_weights.values()): 0 + STAGEWISE + LIVEKIT + SMARTUI, added from
\* the left
FloatWeightSum(weights) == FloatAdd(FloatAdd(weights.stagewise, weights.livekit), weights.smartui)

\* _learn_from_decision in floating point: the weights after the call
LearnFromFloatDecision(weights, total_weight) ==
    [framework \in DOMAIN weights |-> FloatDiv(weights[framework], total_weight)]

\* make_decision(context, input_data) with the arithmetic of _learn_from_decision in
\* floating point
MakeFloatDecision(request, random) ==
    LET context == request.context
        profiles == EngineAnalyzeUserBehavior(engine_profiles, context)
        outcome == RunStrategy(context, profiles[context.user_id], request.input_data, random, now)
        call == [request |-> request, strategy |-> strategy, learning |-> learning_enabled,
                 time |-> now, weights_before |-> framework_weights]
    IN  /\ engine_profiles' = profiles
        /\ IF outcome.raised
           THEN /\ decision_log' = Append(decision_log,
                        Update(call, [outcome |-> "raised", exception |-> outcome.exception,
                                      response |-> ResponseTo(request, outcome)]))
                /\ UNCHANGED <<decision_history, framework_weights>>
           ELSE LET result == Update(outcome.decision,
                                     [decision_id |-> Len(decision_log) + 1, timestamp |-> now])
                IN  /\ decision_history' = Append(decision_history, result)
                    /\ framework_weights' =
                           IF learning_enabled
                           THEN LearnFromFloatDecision(
                                    AdjustFloatWeights(framework_weights, result),
                                    FloatWeightSum(AdjustFloatWeights(framework_weights, result)))
                           ELSE framework_weights
                    /\ decision_log' = Append(decision_log,
                            Update(call, [outcome |-> "returned", result |-> result,
                                          response |-> ResponseTo(request, outcome)]))
        /\ UNCHANGED <<now, analyzer_vars, strategy, learning_enabled, tasks, integrate_vars>>

-----------------------------------------------------------------------------
(* SmartUIDecisionEngine._integrate_decisions (decision_engine.py).        *)

Alternative(action_type, target_element, confidence) ==
    [action_type |-> action_type, target_element |-> target_element, confidence |-> confidence]

\* a DecisionResult of decision_engine.py
EngineDecision(action_type, confidence, alternatives) ==
    [action_type |-> action_type, target_element |-> "button", confidence |-> confidence,
     alternatives |-> alternatives]

\* the last decision of maximal confidence, which max() does not return
MaxByConfidence_Last(decisions) ==
    decisions[CHOOSE k \in 1..Len(decisions) :
                  /\ \A j \in 1..Len(decisions) : RLe(decisions[j].confidence, decisions[k].confidence)
                  /\ \A j \in (k + 1)..Len(decisions) :
                         RLt(decisions[j].confidence, decisions[k].confidence)]

\* the first decision of maximal confidence: max(decisions, key=...)
RECURSIVE MaxByConfidence(_)
MaxByConfidence(decisions) ==
    IF Len(decisions) = 1 THEN decisions[1]
    ELSE LET rest == MaxByConfidence(Tail(decisions))
         IN  IF RLt(decisions[1].confidence, rest.confidence) THEN rest ELSE decisions[1]

RECURSIVE Flatten(_)
Flatten(lists) == IF lists = <<>> THEN <<>> ELSE lists[1] \o Flatten(Tail(lists))

AltKey(alt) == <<alt.action_type, alt.target_element>>

\* the first alternative of every (action_type, target_element) key
RECURSIVE UniqueAlternatives(_, _)
UniqueAlternatives(alts, seen) ==
    IF alts = <<>> THEN <<>>
    ELSE IF AltKey(alts[1]) \in seen THEN UniqueAlternatives(Tail(alts), seen)
    ELSE <<alts[1]>> \o UniqueAlternatives(Tail(alts), seen \cup {AltKey(alts[1])})

\* list.sort(key=confidence, reverse=True): stable, highest confidence first
RECURSIVE SortByConfidence(_)
SortByConfidence(alts) ==
    IF alts = <<>> THEN <<>>
    ELSE LET sorted == SortByConfidence(SubSeq(alts, 1, Len(alts) - 1))
             last == alts[Len(alts)]
             before == SelectSeq(sorted, LAMBDA a : RLe(last.confidence, a.confidence))
             after == SelectSeq(sorted, LAMBDA a : RLt(a.confidence, last.confidence))
         IN  before \o <<last>> \o after

\* line 235
IntegrateWeights(decisions) ==
    LET total_confidence == RSumSeq([k \in 1..Len(decisions) |-> decisions[k].confidence])
    IN  [k \in 1..Len(decisions) |->
            IF RLt(Zero, total_confidence) THEN RDiv(decisions[k].confidence, total_confidence)
            ELSE Rat(1, Len(decisions))]

\* _integrate_decisions(decisions, context)
IntegrateDecisions(decisions) ==
    IF decisions = <<>> THEN Raised("ValueError")       \* max() of an empty list
    ELSE
    LET weights == IntegrateWeights(decisions)
        primary_decision == MaxByConfidence(decisions)
        all_alternatives == Flatten([k \in 1..Len(decisions) |-> decisions[k].alternatives])
        unique_alternatives == SortByConfidence(UniqueAlternatives(all_alternatives, {}))
    IN  Returned([action_type |-> primary_decision.action_type,
                  target_element |-> primary_decision.target_element,
                  confidence |-> RSumSeq([k \in 1..Len(decisions) |->
                                              RMul(weights[k], decisions[k].confidence)]),
                  alternatives |-> SubSeq(unique_alternatives, 1,
                                          IF Len(unique_alternatives) < 5 THEN Len(unique_alternatives) ELSE 5)])

-----------------------------------------------------------------------------
(* Specifications.                                                         *)

NoCall == [op |-> "none"]

AnalyzerInit ==
    /\ now = 0
    /\ next_id = 1
    /\ interaction_history = EmptyDict
    /\ session_data = EmptyDict
    /\ user_profiles = EmptyDict
    /\ analysis_cache = EmptyDict
    /\ arrivals = [u \in UserIds |-> <<>>]
    /\ last_call = NoCall
    /\ calls = <<>>

\* EnhancedDecisionEngine.__init__ with the default configuration
EngineInit ==
    /\ framework_weights = InitialWeights
    /\ decision_history = <<>>
    /\ engine_profiles = EmptyDict
    /\ strategy = "hybrid"
    /\ learning_enabled = TRUE
    /\ decision_log = <<>>
    /\ tasks = <<>>

\* SmartUIDecisionEngine.__init__, lines 80-89
RecordInit ==
    /\ smartui_history = <<>>
    /\ performance_metrics = [total_decisions |-> 0, successful_decisions |-> 0,
                              average_confidence |-> Zero, average_response_time |-> Zero]
    /\ recorded_times = [calls |-> 0, total |-> Zero]

IntegrateInit ==
    /\ integrate_in = <<>>
    /\ integrate_out = NoCall
    /\ RecordInit

Init == AnalyzerInit /\ EngineInit /\ IntegrateInit

\* interactions are numbered per user in the order they are handed to record_interaction
NextInteractionId(user_id) == Len(arrivals[user_id]) + 1

\* record_interaction with an interaction stamped datetime.now(), as main.py builds it
Record ==
    /\ next_id <= MaxRecords
    /\ \E user_id \in UserIds, session_id \in SessionIds : \E kind \in KindsOf(user_id) :
          RecordInteraction(UserInteraction(NextInteractionId(user_id), user_id, session_id, now, kind))

Analyze ==
    /\ Len(calls) < MaxCalls
    /\ \E user_id \in AnalyzedUsers, context \in Contexts : AnalyzeUserBehavior(user_id, context)

Next == Record \/ Analyze \/ Tick

Spec == Init /\ [][Next]_vars

-----------------------------------------------------------------------------
(* SpecEngine: the decision engines.  main.py constructs the               *)
(* EnhancedDecisionEngine, with a strategy and a learning flag taken from   *)
(* the configuration; SmartUIDecisionEngine is the engine of               *)
(* decision_engine.py, which shares no state with it.  A behaviour follows *)
(* one of the two: make_decision calls on the first, or one                *)
(* _integrate_decisions call on a list of decisions drawn at the start.    *)

IntegrateConfidences == {Zero, Dec(3, 10), Dec(9, 10), One}

\* the decisions of the rule, ML and heuristic engines, in the order _hybrid_decision
\* passes them
EngineOrder == <<"rule", "ml", "heuristic">>
EngineAlternatives ==
    [rule |-> <<Alternative("modify", "button", Dec(1, 2))>>,
     ml |-> <<Alternative("modify", "button", Dec(4, 5)), Alternative("resize", "panel", Dec(3, 5))>>,
     heuristic |-> <<Alternative("hide", "panel", Dec(3, 5))>>]

IntegrateInputs ==
    UNION { { [k \in 1..n |-> EngineDecision(EngineOrder[k], confidences[k], EngineAlternatives[EngineOrder[k]])]
              : confidences \in [1..n -> IntegrateConfidences] } : n \in 0..Len(EngineOrder) }

EnhancedEngineInit ==
    /\ framework_weights = InitialWeights
    /\ decision_history = <<>>
    /\ engine_profiles = EmptyDict
    /\ strategy \in DecisionStrategy
    /\ learning_enabled \in BOOLEAN
    /\ decision_log = <<>>
    /\ tasks = <<>>
    /\ IntegrateInit

SmartUIEngineInit ==
    /\ EngineInit
    /\ integrate_in \in IntegrateInputs
    /\ integrate_out = [op |-> "pending"]
    /\ RecordInit

DecisionInit == AnalyzerInit /\ (EnhancedEngineInit \/ SmartUIEngineInit)

Decide ==
    /\ integrate_out.op = "none"
    /\ Len(decision_log) < MaxDecisions
    /\ \E request \in Requests, random \in RandomDraws : MakeDecision(request, random)

Integrate ==
    /\ integrate_out.op = "pending"
    /\ integrate_out' = Update(IntegrateDecisions(integrate_in), [op |-> "_integrate_decisions"])
    /\ UNCHANGED <<now, analyzer_vars, engine_vars, integrate_in, record_vars>>

EngineTick ==
    /\ now < MaxEngineTime
    /\ now' = now + 1
    /\ UNCHANGED <<analyzer_vars, engine_vars, integrate_vars>>

EngineNext == Decide \/ Integrate \/ EngineTick

SpecEngine == DecisionInit /\ [][EngineNext]_vars

\* the make_decision calls that returned a DecisionResult
ReturnedCalls == {k \in 1..Len(decision_log) : decision_log[k].outcome = "returned"}

InUnitInterval(x) == RLe(Zero, x) /\ RLe(x, One)

\* C2: after every make_decision call with learning enabled the weights of STAGEWISE,
\* LIVEKIT and SMARTUI sum to 1.
C2_WeightsSumToOne ==
    (learning_enabled /\ decision_log # <<>>) => WeightSum(framework_weights) = One

\* two calls with learning enabled have returned, the first boosted a weight, and the
\* weights differ from the initial ones
C2_Witness ==
    /\ learning_enabled
    /\ Cardinality(ReturnedCalls) >= 2
    /\ \E k \in ReturnedCalls :
           /\ RLt(Dec(8, 10), decision_log[k].result.confidence)
           /\ decision_log[k].result.primary_framework \in WeightedFrameworks
    /\ framework_weights # InitialWeights

\* C3: every DecisionResult make_decision returns, under each strategy, has a confidence
\* in [0, 1], and so has the result of _integrate_decisions on decisions whose
\* confidences are in [0, 1].
C3_ConfidenceInUnitInterval ==
    /\ \A k \in ReturnedCalls : InUnitInterval(decision_log[k].result.confidence)
    /\ \A k \in 1..Len(decision_history) : InUnitInterval(decision_history[k].confidence)
    /\ (integrate_out.op = "_integrate_decisions" /\ ~integrate_out.raised)
           => InUnitInterval(integrate_out.decision.confidence)

\* a hybrid decision fused a rule confidence of 0.9 with an ML confidence above 0.8
C3_Witness ==
    \E k \in ReturnedCalls :
        /\ decision_log[k].strategy = "hybrid"
        /\ decision_log[k].result.metadata.rule_confidence = Dec(9, 10)
        /\ RLt(Dec(8, 10), decision_log[k].result.metadata.ml_confidence)

\* C4: for a fixed decision context and input, two hybrid decisions have the same fused
\* confidence, the same primary framework and the same ordered action list.
C4_HybridReproducible ==
    \A i, j \in ReturnedCalls :
        (decision_log[i].strategy = "hybrid" /\ decision_log[i].request = decision_log[j].request)
        => /\ decision_log[i].result.confidence = decision_log[j].result.confidence
           /\ decision_log[i].result.primary_framework = decision_log[j].result.primary_framework
           /\ decision_log[i].result.actions = decision_log[j].result.actions

\* one of the two engines of the hybrid strategy raises on the call's request
EngineRaises(call) ==
    \/ RuleBasedDecision(call.request.context, call.request.input_data).raised
    \/ ExtractRaises(call.request.context)

\* C5: a hybrid make_decision in which one strategy engine raises still returns a fused
\* DecisionResult; no exception leaves make_decision.
C5_HybridContainsEngineFailure ==
    \A k \in 1..Len(decision_log) :
        (decision_log[k].strategy = "hybrid" /\ EngineRaises(decision_log[k]))
        => decision_log[k].outcome = "returned"

\* the rule engine's result for the request of a logged call that returned
RuleResultOf(call) == RuleBasedDecision(call.request.context, call.request.input_data).decision

\* the hybrid calls that returned
HybridCalls == {k \in ReturnedCalls : decision_log[k].strategy = "hybrid"}

\* C11: the primary of a hybrid fusion is the engine result with the higher confidence,
\* and with equal confidences it is the rule-based result: the fused result carries the
\* rule result's framework and starts with the rule result's actions whenever the rule
\* confidence is not below the ML confidence.
C11_RulePrimaryOnTie ==
    \A k \in HybridCalls :
        LET result == decision_log[k].result
            rule == RuleResultOf(decision_log[k])
        IN  RLe(result.metadata.ml_confidence, result.metadata.rule_confidence)
            => /\ result.primary_framework = rule.primary_framework
               /\ Len(result.actions) >= Len(rule.actions)
               /\ SubSeq(result.actions, 1, Len(rule.actions)) = rule.actions

\* the ML engine's result for the request of a logged call that returned; its framework
\* and its actions do not depend on the random draw
MLResultOf(call) ==
    LET context == call.request.context
        profile == EngineAnalyzeUserBehavior(EmptyDict, context)[context.user_id]
    IN  MLBasedDecision(context, profile, call.request.input_data, Zero).decision

\* sum of confidence x weight over the sum of the weights of the non-zero confidences
WeightedConfidence(confidences, weights) ==
    RDiv(RSumSeq([k \in 1..Len(confidences) |-> RMul(confidences[k], weights[k])]),
         RSumSeq([k \in 1..Len(confidences) |-> IF confidences[k] = Zero THEN Zero ELSE weights[k]]))

\* C12: the fused confidence is the sum of (engine confidence x weight of the engine's
\* category) over the sum of those weights, taken over the engines of non-zero
\* confidence: in a hybrid make_decision with the framework weights of the two engines'
\* frameworks, and in _integrate_decisions, whose engines carry no category, with equal
\* weights (0.9 and 0.3 fuse to 0.6).
C12_FusedConfidenceIsWeightedMean ==
    /\ \A k \in HybridCalls :
           LET call == decision_log[k]
               rule_framework == RuleResultOf(call).primary_framework
               ml_framework == MLResultOf(call).primary_framework
           IN  (rule_framework \in WeightedFrameworks /\ ml_framework \in WeightedFrameworks)
               => call.result.confidence =
                      WeightedConfidence(<<call.result.metadata.rule_confidence,
                                           call.result.metadata.ml_confidence>>,
                                         <<call.weights_before[rule_framework],
                                           call.weights_before[ml_framework]>>)
    /\ (/\ integrate_out.op = "_integrate_decisions"
        /\ ~integrate_out.raised
        /\ \E k \in 1..Len(integrate_in) : integrate_in[k].confidence # Zero)
       => integrate_out.decision.confidence =
              WeightedConfidence([k \in 1..Len(integrate_in) |-> integrate_in[k].confidence],
                                 [k \in 1..Len(integrate_in) |-> One])

\* the (action type, target element) pair of an action
PairOf(action) == <<action.type, action.target_element>>

\* the first list, followed by the actions of the second whose pair is not in the first
FusedByPair(first, second) ==
    first \o SelectSeq(second, LAMBDA a : ~\E k \in 1..Len(first) : PairOf(first[k]) = PairOf(a))

\* C13: the action list of a hybrid result is the actions of the engine result of higher
\* confidence, in order, followed by the other engine's actions whose (type, target
\* element) pair is not yet present, and no two of its actions share that pair.  (With
\* equal confidences either engine may be the first; which one is the subject of C11.)
C13_FusedActionsDeduplicated ==
    \A k \in HybridCalls :
        LET call == decision_log[k]
            actions == call.result.actions
            rule == RuleResultOf(call).actions
            ml == MLResultOf(call).actions
            rule_confidence == call.result.metadata.rule_confidence
            ml_confidence == call.result.metadata.ml_confidence
        IN  /\ RLt(ml_confidence, rule_confidence) => actions = FusedByPair(rule, ml)
            /\ RLt(rule_confidence, ml_confidence) => actions = FusedByPair(ml, rule)
            /\ actions \in {FusedByPair(rule, ml), FusedByPair(ml, rule)}
            /\ \A i, j \in 1..Len(actions) : PairOf(actions[i]) = PairOf(actions[j]) => i = j

\* a hybrid call fused the action of a rule result of higher confidence with the action
\* of the ML result
C13_Witness ==
    \E k \in HybridCalls :
        /\ RLt(decision_log[k].result.metadata.ml_confidence,
               decision_log[k].result.metadata.rule_confidence)
        /\ Len(RuleResultOf(decision_log[k]).actions) = 1
        /\ Len(decision_log[k].result.actions) = 2

\* weights with the weight of one framework multiplied by a factor, renormalized
ScaledAndNormalized(weights, framework, factor) ==
    LET scaled == IF framework \in DOMAIN weights
                  THEN [weights EXCEPT ![framework] = RMul(@, factor)]
                  ELSE weights
    IN  [f \in DOMAIN scaled |-> RDiv(scaled[f], WeightSum(scaled))]

\* C14: after a make_decision call with learning enabled, the weights are the weights
\* before the call with the weight of the decision's framework multiplied by 1.05 if the
\* confidence is >= 0.8 (0.8 included), by 0.95 if it is < 0.5, by nothing otherwise,
\* and then renormalized.
C14_WeightAdaptation ==
    (decision_log # <<>>) =>
        LET call == decision_log[Len(decision_log)]
            factor == IF RLe(Dec(8, 10), call.result.confidence) THEN Dec(105, 100)
                      ELSE IF RLt(call.result.confidence, Dec(5, 10)) THEN Dec(95, 100)
                      ELSE One
        IN  (call.outcome = "returned" /\ call.learning)
            => framework_weights =
                   ScaledAndNormalized(call.weights_before, call.result.primary_framework, factor)

\* the results of the calls that returned, in call order
ReturnedResults ==
    LET returned == SelectSeq(decision_log, LAMBDA call : call.outcome = "returned")
    IN  [k \in 1..Len(returned) |-> returned[k].result]

\* C15: every result make_decision returns is appended to the decision history, and the
\* history length stays within a fixed capacity, being trimmed to its most recent
\* results when it would exceed it.  The capacity is taken below the number of calls of
\* a behaviour, so that a trim has to happen within the behaviour.
C15_HistoryBounded ==
    /\ decision_history # <<>>
           => decision_history[Len(decision_history)] = ReturnedResults[Len(ReturnedResults)]
    /\ Len(decision_history) < MaxDecisions

\* the voice and visual debug calls whose decision came out below the threshold
LowConfidenceCalls ==
    {k \in ReturnedCalls :
        /\ decision_log[k].request.input_data.input_type \in {"voice", "visual_debug"}
        /\ RLt(decision_log[k].result.confidence, decision_confidence_threshold)}

\* C16: a voice or visual debug decision whose confidence is below the threshold (0.7)
\* is answered with a 'needs clarification' outcome, not with a failure or error
\* response.
C16_LowConfidenceIsNotAnError ==
    \A k \in LowConfidenceCalls :
        LET response == decision_log[k].response
        IN  ~(response.success = FALSE /\ "error" \in DOMAIN response)

-----------------------------------------------------------------------------
(* SpecTasks: make_decision calls running as asyncio tasks on one event     *)
(* loop.  A task runs without interruption from one await to the next; the *)
(* loop may switch to another task at every await of make_decision         *)
(* (lines 308, 313-321 and 332).  _learn_from_decision contains no await.  *)
(* The clock stands still while the tasks run.                             *)

\* the requests of the concurrent calls
TaskRequests ==
    { VoiceRequest(UserA, Desktop, <<"Change", "color">>, Dec(9, 10), [target |-> "header", value |-> "red"]),
      VisualRequest(UserA, Desktop, "inspect", LargeElement),
      Request(DecisionContext(UserA, Desktop, <<>>, NoneValue, NoneValue),
              VisualInput("inspect", NoneValue)) }

TaskInit ==
    /\ AnalyzerInit
    /\ IntegrateInit
    /\ framework_weights = InitialWeights
    /\ decision_history = <<>>
    /\ engine_profiles = EmptyDict
    /\ strategy \in DecisionStrategy
    /\ learning_enabled = TRUE
    /\ decision_log = <<>>
    /\ tasks = <<>>

\* asyncio schedules a make_decision call as a task
Spawn ==
    /\ Len(tasks) < MaxTasks
    /\ \E request \in TaskRequests :
           tasks' = Append(tasks, [pc |-> "created", request |-> request, result |-> NoneValue,
                                   weights_seen |-> framework_weights])
    /\ UNCHANGED <<now, analyzer_vars, framework_weights, decision_history, engine_profiles,
                   strategy, learning_enabled, decision_log, integrate_vars>>

\* lines 305-309: up to the end of user_analyzer.analyze_user_behavior
TaskAnalyze(t) ==
    /\ tasks[t].pc = "created"
    /\ engine_profiles' = EngineAnalyzeUserBehavior(engine_profiles, tasks[t].request.context)
    /\ tasks' = [tasks EXCEPT ![t].pc = "analyzed"]
    /\ UNCHANGED <<now, analyzer_vars, framework_weights, decision_history, strategy,
                   learning_enabled, decision_log, integrate_vars>>

\* a strategy that adapts the framework weights itself
TaskStrategy_Learning(t) ==
    /\ tasks[t].pc = "analyzed"
    /\ \E random \in RandomDraws :
           LET request == tasks[t].request
               outcome == RunStrategy(request.context, engine_profiles[request.context.user_id],
                                      request.input_data, random, now)
           IN  IF outcome.raised
               THEN /\ tasks' = [tasks EXCEPT ![t].pc = "raised"]
                    /\ UNCHANGED <<decision_history, framework_weights>>
               ELSE LET result == Update(outcome.decision, [decision_id |-> t, timestamp |-> now])
                    IN  /\ decision_history' = Append(decision_history, result)
                        /\ framework_weights' = LearnFromDecision(framework_weights, result)
                        /\ tasks' = [tasks EXCEPT ![t].pc = IF learning_enabled THEN "decided" ELSE "done",
                                                  ![t].result = Some(result),
                                                  ![t].weights_seen = framework_weights]
    /\ UNCHANGED <<now, analyzer_vars, engine_profiles, strategy,
                   learning_enabled, decision_log, integrate_vars>>

\* lines 312-331: the strategy, the id and the timestamp, the append to the history;
\* weights_seen notes the weights at that moment
TaskStrategy(t) ==
    /\ tasks[t].pc = "analyzed"
    /\ \E random \in RandomDraws :
           LET request == tasks[t].request
               outcome == RunStrategy(request.context, engine_profiles[request.context.user_id],
                                      request.input_data, random, now)
           IN  IF outcome.raised
               THEN /\ tasks' = [tasks EXCEPT ![t].pc = "raised"]
                    /\ UNCHANGED decision_history
               ELSE LET result == Update(outcome.decision, [decision_id |-> t, timestamp |-> now])
                    IN  /\ decision_history' = Append(decision_history, result)
                        /\ tasks' = [tasks EXCEPT ![t].pc = IF learning_enabled THEN "decided" ELSE "done",
                                                  ![t].result = Some(result),
                                                  ![t].weights_seen = framework_weights]
    /\ UNCHANGED <<now, analyzer_vars, framework_weights, engine_profiles, strategy,
                   learning_enabled, decision_log, integrate_vars>>

\* the weights the learning step works on are those noted before its await
LearnReads_BeforeAwait(t) == tasks[t].weights_seen

\* lines 663-676 read self.framework_weights when they run
LearnReads(t) == framework_weights

\* lines 332-334: _learn_from_decision, then the return
TaskLearn(t) ==
    /\ tasks[t].pc = "decided"
    /\ framework_weights' = LearnFromDecision(LearnReads(t), ValueOf(tasks[t].result))
    /\ tasks' = [tasks EXCEPT ![t].pc = "done"]
    /\ UNCHANGED <<now, analyzer_vars, decision_history, engine_profiles, strategy,
                   learning_enabled, decision_log, integrate_vars>>

TaskStep == \E t \in 1..Len(tasks) : TaskAnalyze(t) \/ TaskStrategy(t) \/ TaskLearn(t)

TaskNext == Spawn \/ TaskStep

SpecTasks == TaskInit /\ [][TaskNext]_vars

\* the tasks whose learning step has run
Learned == {t \in 1..Len(tasks) : tasks[t].pc = "done"}

\* the weights that the adaptations of a set of tasks can give, applied one after the
\* other in any order
RECURSIVE SerialOutcomes(_, _)
SerialOutcomes(weights, remaining) ==
    IF remaining = {} THEN {weights}
    ELSE UNION { SerialOutcomes(LearnFromDecision(weights, ValueOf(tasks[t].result)), remaining \ {t})
                 : t \in remaining }

\* C17: with make_decision calls running concurrently as asyncio tasks no weight update
\* is lost: the weights are, at every moment, what the adaptations of the calls whose
\* learning step has run give when applied one after the other in some order.
C17_NoLostWeightUpdate == framework_weights \in SerialOutcomes(InitialWeights, Learned)

\* two tasks whose adaptations both change the weights had both run their strategy
\* before either ran its learning step, and both learning steps have run
C17_Witness ==
    \E t, u \in Learned :
        /\ t # u
        /\ tasks[t].weights_seen = InitialWeights
        /\ tasks[u].weights_seen = InitialWeights
        /\ LearnFromDecision(InitialWeights, ValueOf(tasks[t].result)) # InitialWeights
        /\ LearnFromDecision(InitialWeights, ValueOf(tasks[u].result)) # InitialWeights

-----------------------------------------------------------------------------
(* SpecRing: one user records more interactions than the ring buffer holds *)
(* while a second user records a few.                                      *)

RingKinds(user_id) == IF user_id = UserA THEN {PlainKind} ELSE InteractionKinds
RingLimit(user_id) == IF user_id = UserA THEN RingCapacity + MaxRingOverflow ELSE MaxOtherRecords

\* each user is in a session of their own
RingSession(user_id) == IF user_id = UserA THEN "s1" ELSE "s2"

RingRecord ==
    \E user_id \in UserIds :
        /\ Len(arrivals[user_id]) < RingLimit(user_id)
        /\ \E kind \in RingKinds(user_id) :
              RecordInteraction(UserInteraction(NextInteractionId(user_id), user_id,
                                                RingSession(user_id), now, kind))

RingNext == RingRecord

SpecRing == Init /\ [][RingNext]_vars

IdsOf(buffer) == [k \in 1..Len(buffer) |-> buffer[k].interaction_id]

LastOf(s, n) == SubSeq(s, Len(s) - n + 1, Len(s))

\* C1: after any sequence of record_interaction calls every user's buffer has at most
\* RingCapacity entries and holds the most recently recorded interactions of that user,
\* min(RingCapacity, number recorded) of them, in arrival order.
C1_RingBufferKeepsMostRecent ==
    \A user_id \in UserIds :
        LET buffer == Get(interaction_history, user_id, <<>>)
            recorded == arrivals[user_id]
            kept == IF Len(recorded) > RingCapacity THEN RingCapacity ELSE Len(recorded)
        IN  /\ Len(buffer) <= RingCapacity
            /\ IdsOf(buffer) = LastOf(recorded, kept)

\* a user recorded more than RingCapacity interactions, the oldest were evicted, and
\* another user's buffer is non-empty
C1_Witness ==
    /\ Len(arrivals[UserA]) = RingCapacity + MaxRingOverflow
    /\ Len(interaction_history[UserA]) = RingCapacity
    /\ interaction_history[UserA][1].interaction_id = arrivals[UserA][MaxRingOverflow + 1]
    /\ Len(arrivals[UserB]) > 0

-----------------------------------------------------------------------------
(* Properties of the analyzer, checked under Spec.                         *)

\* the step is a record_interaction call / an analyze_user_behavior call
RecordStep == next_id' = next_id + 1
AnalyzeStep == Len(calls') = Len(calls) + 1
ThisCall == calls'[Len(calls')]

SameRequest(c, d) == c.user_id = d.user_id /\ c.context = d.context

\* the pattern/metric fields of a user's profile (empty while there is no profile)
PatternFields(profiles, user_id) ==
    LET p == IF Has(profiles, user_id) THEN profiles[user_id] ELSE NewUserProfile(user_id, 0)
    IN  <<p.preferred_input_methods, p.interaction_patterns, p.efficiency_metrics,
          p.accessibility_needs, p.device_preferences>>

\* C6: whenever record_interaction returns False for an interaction with a malformed
\* modality, the user's ring buffer, the session's interaction list and the analysis
\* cache are as they were before the call.
C6_FailedRecordLeavesStore ==
    [][(RecordStep /\ ~last_call'.returned
            /\ ~HasValue(interaction_history'[last_call'.user_id][Len(interaction_history'[last_call'.user_id])]))
        => UNCHANGED <<interaction_history, session_data, analysis_cache>>]_vars

C8_NoStaleRead ==
    \A n \in 1..Len(calls) :
        /\ calls[n].source = "cache" => (0 <= calls[n].entry_age /\ calls[n].entry_age < cache_ttl)
        /\ (calls[n].entry_age = -1 \/ calls[n].entry_age >= cache_ttl)
               => calls[n].source \in {"computed", "default"}

\* an entry of age >= TTL was found and the analysis was recomputed
C8_Witness ==
    \E n \in 1..Len(calls) : calls[n].entry_age >= cache_ttl /\ calls[n].source = "computed"

\* what C9 promises of a call: the fixed default insight, no detector run, no cache
\* write, the profile's pattern/metric fields as before
DefaultOutcome(call) ==
    /\ call.source = "default"
    /\ call.returned.overall_confidence = Dec(3, 10)
    /\ call.returned.user_type = "new_user"
    /\ call.returned.recommendations = {"onboarding_assistance", "usage_tracking"}
    /\ call.detectors_run = {}
    /\ analysis_cache' = analysis_cache
    /\ PatternFields(user_profiles', call.user_id) = PatternFields(user_profiles, call.user_id)

\* C9 as claimed, for the calls that return a payload: whenever the user's recent window
\* holds fewer than min_interactions_for_analysis interactions, the call has the default
\* outcome.
C9_Original ==
    [][(AnalyzeStep /\ ThisCall.source # "raised" /\ ThisCall.window_size < min_interactions_for_analysis)
        => DefaultOutcome(ThisCall)]_vars

\* C9 (amended): a call that is not served from the cache (its key holds no entry younger
\* than the TTL) and whose user has fewer than min_interactions_for_analysis interactions
\* in the recent window, zero included, has the default outcome.
C9_DefaultBelowThreshold ==
    [][(AnalyzeStep /\ ThisCall.window_size < min_interactions_for_analysis
            /\ (ThisCall.entry_age = -1 \/ ThisCall.entry_age >= cache_ttl))
        => DefaultOutcome(ThisCall)]_vars

\* the default was returned for an empty window and for a non-empty one below the threshold
C9_Witness ==
    /\ \E n \in 1..Len(calls) : calls[n].source = "default" /\ calls[n].window_size = 0
    /\ \E n \in 1..Len(calls) : calls[n].source = "default" /\ calls[n].window_size > 0

\* the confidence a detector that did not raise reports on the call's window
ConfidenceOf(name, call) ==
    RunDetector(name, GetRecentInteractions(interaction_history, call.user_id, call.time), call.time).result.confidence

\* C10: when a detector raises, the call still runs all five detectors, returns a
\* synthesized insight in which the failed detector counts with confidence 0 and
\* contributes no insight, caches that insight, and raises nothing.
C10_DetectorFailureContained ==
    [][(AnalyzeStep /\ ThisCall.detectors_failed # {})
        => LET call == ThisCall
               ok == call.detectors_run \ call.detectors_failed
               sum == RSumSeq([n \in 1..Len(PatternNames) |->
                          IF PatternNames[n] \in ok THEN ConfidenceOf(PatternNames[n], call) ELSE Zero])
           IN  /\ call.source = "computed"
               /\ call.detectors_run = {PatternNames[n] : n \in 1..Len(PatternNames)}
               /\ call.returned.overall_confidence = RDiv(sum, <<5, 1>>)
               /\ call.detectors_failed \cap DOMAIN call.returned.insights = {}
               /\ call.returned.user_type # "unknown"
               /\ analysis_cache'[CacheKey(call.user_id, call.context)]
                      = [timestamp |-> call.time, analysis |-> call.returned]]_vars

\* a call in which one detector raised while others produced insights
C10_Witness ==
    \E n \in 1..Len(calls) :
        /\ calls[n].detectors_failed # {}
        /\ calls[n].source = "computed"
        /\ DOMAIN calls[n].returned.insights # {}

\* the user ids an interaction was recorded for or an analysis was requested for
KnownUsers == DOMAIN interaction_history \cup {calls[n].user_id : n \in 1..Len(calls)}

\* C18: a UserProfile exists for a user id as soon as the first interaction of the user
\* has been recorded or the first analysis for the user has been requested, and the
\* profile stored under a user id is that user's.
C18_ProfileExistsFromFirstUse ==
    \A user_id \in KnownUsers :
        /\ Has(user_profiles, user_id)
        /\ user_profiles[user_id].user_id = user_id

-----------------------------------------------------------------------------
(* SpecWindow: _get_recent_interactions and _detect_input_preference on    *)
(* the buffer of a user.  record_interaction stores the UserInteraction    *)
(* it is given; the timestamp is a field its caller fills in, so that an   *)
(* interaction can be older than one recorded before it.  UserB records    *)
(* nothing here and has no buffer.                                         *)

StampedKinds ==
    { Kind("voice", NoDeviceContext, TRUE, 1000),
      Kind("voice", NoDeviceContext, FALSE, 1000),
      Kind("visual", NoDeviceContext, TRUE, 1000) }

\* record_interaction with an interaction whose timestamp is the caller's
RecordStamped ==
    /\ next_id <= MaxStamped
    /\ \E kind \in StampedKinds, timestamp \in 0..now :
           RecordInteraction(UserInteraction(NextInteractionId(UserA), UserA, "s1", timestamp, kind))

\* _get_recent_interactions(user_id): the method assigns to no attribute
Recent ==
    /\ \E user_id \in UserIds :
           last_call' = [op |-> "_get_recent_interactions", user_id |-> user_id, time |-> now,
                         returned |-> GetRecentInteractions(interaction_history, user_id, now)]
    /\ UNCHANGED <<now, next_id, interaction_history, session_data, user_profiles,
                   analysis_cache, arrivals, calls, engine_vars, integrate_vars>>

\* _detect_input_preference on the recent interactions of a user, as line 203 calls it
Detect ==
    /\ \E user_id \in UserIds :
           LET interactions == GetRecentInteractions(interaction_history, user_id, now) IN
           last_call' = [op |-> "_detect_input_preference", user_id |-> user_id, time |-> now,
                         interactions |-> interactions,
                         outcome |-> DetectInputPreference(interactions)]
    /\ UNCHANGED <<now, next_id, interaction_history, session_data, user_profiles,
                   analysis_cache, arrivals, calls, engine_vars, integrate_vars>>

WindowNext == RecordStamped \/ Recent \/ Detect \/ Tick

SpecWindow == Init /\ [][WindowNext]_vars

\* frequency of a modality in the window x success rate of the modality
PreferenceScore(interactions, modality) ==
    LET count == Count(interactions, LAMBDA i : i.interaction_type = modality)
        successes == Count(interactions, LAMBDA i : i.interaction_type = modality /\ i.success)
    IN  IF count = 0 THEN Zero
        ELSE RMul(Rat(count, Len(interactions)), Rat(successes, count))

\* C19: the input preference detector selects the modality of the window with the
\* highest score (frequency x success rate) and reports that score as confidence; of
\* several modalities with the top score it selects the one that is first in the
\* declaration order voice, visual, touch, keyboard, mouse, gesture.
C19_PrimaryByDeclarationOrder ==
    (last_call.op = "_detect_input_preference" /\ last_call.interactions # <<>>) =>
        LET interactions == last_call.interactions
            present == {interactions[k].interaction_type : k \in 1..Len(interactions)}
            top == {m \in present : \A n \in present :
                        RLe(PreferenceScore(interactions, n), PreferenceScore(interactions, m))}
            first == InteractionTypeOrder[
                         CHOOSE k \in 1..Len(InteractionTypeOrder) :
                             /\ InteractionTypeOrder[k] \in top
                             /\ \A j \in 1..(k - 1) : InteractionTypeOrder[j] \notin top]
        IN  /\ ~last_call.outcome.raised
            /\ last_call.outcome.result.data.primary_preference = first
            /\ last_call.outcome.result.confidence = PreferenceScore(interactions, first)

RecentStep ==
    last_call'.op = "_get_recent_interactions" /\ now' = now /\ next_id' = next_id

\* C20: _get_recent_interactions(user) returns exactly the buffered interactions of the
\* user whose timestamp is >= now - analysis window, in non-decreasing timestamp order,
\* and leaves buffers, sessions, cache and profiles as they were, also for a user
\* without a buffer.
C20_RecentWindowChronological ==
    [][RecentStep =>
        LET returned == last_call'.returned
            buffer == Get(interaction_history, last_call'.user_id, <<>>)
            in_window == {k \in 1..Len(buffer) : buffer[k].timestamp >= now - analysis_window}
        IN  /\ {returned[k] : k \in 1..Len(returned)} = {buffer[k] : k \in in_window}
            /\ Len(returned) = Cardinality(in_window)
            /\ \A j, k \in 1..Len(returned) :
                   j < k => returned[j].timestamp <= returned[k].timestamp
            /\ UNCHANGED <<interaction_history, session_data, analysis_cache, user_profiles>>
      ]_vars

-----------------------------------------------------------------------------
(* SpecRecord: SmartUIDecisionEngine._record_decision.  The engine is new, *)
(* or it has recorded Prefilled decisions that took PrefillTime each.      *)

HistoryCapacity == 10000
RetainedHistory == 5000

\* response times, in seconds
ResponseTimes == {Rat(1, 1), Rat(2, 1), Rat(3, 1)}
PrefillTime == Rat(2, 1)
\* the decisions recorded, by their action type
RecordedDecisions == {"modify", "select"}
\* a (context, decision) entry of the history, for the n-th call
HistoryEntryOf(n, decision) == [call |-> n, decision |-> decision]
Prefilled == HistoryCapacity - 1

\* the history keeps its oldest entries
TrimHistory_Oldest(history) ==
    IF Len(history) > HistoryCapacity THEN SubSeq(history, 1, RetainedHistory) ELSE history

\* lines 303-304
TrimHistory(history) ==
    IF Len(history) > HistoryCapacity
    THEN SubSeq(history, Len(history) - RetainedHistory + 1, Len(history))
    ELSE history

\* lines 296-300
UpdateMetrics(metrics, response_time) ==
    LET total_decisions == metrics.total_decisions + 1 IN
    [metrics EXCEPT
        !.total_decisions = total_decisions,
        !.average_response_time =
            RDiv(RAdd(RMul(@, Rat(total_decisions - 1, 1)), response_time), Rat(total_decisions, 1))]

\* _record_decision(context, decision, response_time)
RecordDecision(decision, response_time) ==
    /\ smartui_history' = TrimHistory(Append(smartui_history,
                                             HistoryEntryOf(recorded_times.calls + 1, decision)))
    /\ performance_metrics' = UpdateMetrics(performance_metrics, response_time)
    /\ recorded_times' = [calls |-> recorded_times.calls + 1,
                          total |-> RAdd(recorded_times.total, response_time)]
    /\ UNCHANGED <<now, analyzer_vars, engine_vars, integrate_in, integrate_out>>

PrefilledInit ==
    /\ smartui_history = [k \in 1..Prefilled |-> HistoryEntryOf(k, "modify")]
    /\ performance_metrics = [total_decisions |-> Prefilled, successful_decisions |-> 0,
                              average_confidence |-> Zero, average_response_time |-> PrefillTime]
    /\ recorded_times = [calls |-> Prefilled, total |-> RMul(Rat(Prefilled, 1), PrefillTime)]

RecordDecisionInit ==
    /\ AnalyzerInit
    /\ EngineInit
    /\ integrate_in = <<>>
    /\ integrate_out = NoCall
    /\ (RecordInit \/ PrefilledInit)

RecordDecisionStep ==
    /\ \/ recorded_times.calls < MaxRecorded
       \/ (recorded_times.calls >= Prefilled /\ recorded_times.calls < Prefilled + MaxRecorded)
    /\ \E decision \in RecordedDecisions, response_time \in ResponseTimes :
           RecordDecision(decision, response_time)

SpecRecord == RecordDecisionInit /\ [][RecordDecisionStep]_vars

\* the length of the history after a number of calls
HistoryLengthAfter(n) ==
    IF n <= HistoryCapacity THEN n
    ELSE RetainedHistory + ((n - HistoryCapacity - 1) % (HistoryCapacity - RetainedHistory + 1))

\* C21: after every _record_decision call the history has at most 10000 entries; an
\* append that takes it beyond 10000 leaves the 5000 most recent entries in their order
\* (so the history is never emptied); total_decisions is the number of decisions
\* recorded and average_response_time the mean of all their response times.
C21_HistoryTrimmedMetricsKept ==
    LET recorded == recorded_times.calls
        length == Len(smartui_history)
    IN  /\ length <= HistoryCapacity
        /\ length = HistoryLengthAfter(recorded)
        /\ \A k \in 1..length : smartui_history[k].call = recorded - length + k
        /\ performance_metrics.total_decisions = recorded
        /\ recorded > 0 => performance_metrics.average_response_time
                            = RDiv(recorded_times.total, Rat(recorded, 1))

\* the history was cut to 5000 entries by the call before the last one, and the calls
\* did not all take the same time
C21_Witness ==
    /\ recorded_times.calls = HistoryCapacity + 2
    /\ Len(smartui_history) = RetainedHistory + 1
    /\ performance_metrics.average_response_time # PrefillTime

-----------------------------------------------------------------------------
\* SmartUIDecisionEngine._integrate_decisions: the primary decision

\* the calls of _integrate_decisions with the rule, ML and heuristic results that returned
IntegratedAll ==
    /\ integrate_out.op = "_integrate_decisions"
    /\ ~integrate_out.raised
    /\ Len(integrate_in) = Len(EngineOrder)

\* C22: called with the results [rule, ML, heuristic], _integrate_decisions takes as primary
\* a decision of maximal confidence, and among several of maximal confidence the earliest
\* in the order rule, ML, heuristic
C22_PrimaryIsFirstMaximal ==
    IntegratedAll =>
        \E k \in 1..Len(integrate_in) :
            /\ \A j \in 1..Len(integrate_in) :
                   RLe(integrate_in[j].confidence, integrate_in[k].confidence)
            /\ \A j \in 1..(k - 1) : RLt(integrate_in[j].confidence, integrate_in[k].confidence)
            /\ integrate_in[k].action_type = EngineOrder[k]
            /\ integrate_out.decision.action_type = EngineOrder[k]
            /\ integrate_out.decision.target_element = integrate_in[k].target_element

\* the ML and heuristic results tie above the rule result, and the ML result is primary
C22_Witness ==
    /\ IntegratedAll
    /\ RLt(integrate_in[1].confidence, integrate_in[2].confidence)
    /\ integrate_in[2].confidence = integrate_in[3].confidence
    /\ integrate_out.decision.action_type = "ml"

-----------------------------------------------------------------------------
\* The two kinds of entry of analysis_cache

\* C28: the real-time entries (keyed by a user id) and the analysis entries (keyed by user
\* id, '_' and the context hash) never share a key: no analyze_user_behavior call finds a
\* real-time entry under its key and raises on it, and the entry under the id of a user
\* who recorded interactions is a real-time entry
C28_EntryKindsNeverShareKey ==
    /\ \A k \in 1..Len(calls) : calls[k].source # "raised"
    /\ \A user_id \in DOMAIN interaction_history :
           Has(analysis_cache, user_id) => IsRealTimeEntry(analysis_cache[user_id])

-----------------------------------------------------------------------------
(* SpecProfile: analyses of a user who has already recorded a window of    *)
(* interactions.  A behaviour starts in the state record_interaction       *)
(* leaves after the window was recorded during the first hour; then come   *)
(* analyze_user_behavior and get_user_insights calls, later interactions   *)
(* and the clock.                                                          *)

MaxLate == 2          \* record_interaction calls after the first hour in one behaviour of SpecProfile

KindAt(type, element_id, ctx, success, duration) ==
    [Kind(type, ctx, success, duration) EXCEPT !.element_id = element_id]

\* the interactions of a window come in blocks of one kind each: quick voice commands on
\* one button, slow keyboard input in one field, touches on a phone, failed clicks
WindowBlocks ==
    << PlainKind,
       KindAt("keyboard", "field", NoDeviceContext, TRUE, 4000),
       KindAt("touch", "menu", DeviceContext(MobileDevice), TRUE, 1000),
       KindAt("mouse", "link", NoDeviceContext, FALSE, 1000) >>

\* the sizes of the blocks, window by window
WindowCounts ==
    { <<0, 0, 0, 0>>, <<2, 0, 0, 0>>, <<12, 0, 0, 0>>, <<0, 16, 0, 0>>, <<5, 5, 5, 0>>,
      <<5, 5, 5, 5>>, <<2, 0, 16, 5>>, <<0, 5, 16, 0>>, <<0, 0, 10, 0>> }

RECURSIVE WindowOf(_, _, _)
WindowOf(counts, block, first_id) ==
    IF counts = <<>> THEN <<>>
    ELSE [k \in 1..counts[1] |->
              UserInteraction(first_id + k - 1, UserA, "s1", 0, WindowBlocks[block])]
         \o WindowOf(Tail(counts), block + 1, first_id + counts[1])

RecordedWindows == { WindowOf(counts, 1, 1) : counts \in WindowCounts }

\* recent_success_rate after the window was recorded (lines 701-715): 1.0 or 0.0 after the
\* first interaction, then 0.9 * rate + 0.1 * success for each one; the failed clicks are
\* the last block of a window
RecentSuccessRate(window) ==
    LET failures == Len(Failed(window))
    IN  IF failures = Len(window) THEN Zero ELSE Rat(9 ^ failures, 10 ^ failures)

\* the state after record_interaction was called with every interaction of a window, at
\* time 0: the deque and the session hold the window, the cache the user's real-time entry
ProfileInit ==
    /\ \E window \in RecordedWindows :
           /\ interaction_history = IF window = <<>> THEN EmptyDict ELSE Put(EmptyDict, UserA, window)
           /\ session_data =
                  IF window = <<>> THEN EmptyDict
                  ELSE Put(EmptyDict, "s1", [start_time |-> 0, interactions |-> window, user_id |-> UserA])
           /\ analysis_cache =
                  IF window = <<>> THEN EmptyDict
                  ELSE Put(EmptyDict, UserA,
                           [timestamp |-> 0,
                            real_time_stats |->
                                [recent_success_rate |-> RecentSuccessRate(window),
                                 recent_interaction_count |-> Len(window),
                                 last_interaction_type |-> window[Len(window)].interaction_type]])
           /\ arrivals = [u \in UserIds |-> IF u = UserA THEN [k \in 1..Len(window) |-> k] ELSE <<>>]
           /\ next_id = Len(window) + 1
    /\ now = 0
    /\ user_profiles = EmptyDict
    /\ last_call = NoCall
    /\ calls = <<>>
    /\ EngineInit
    /\ IntegrateInit

LateInteractions(user_id) ==
    SelectSeq(Get(interaction_history, user_id, <<>>), LAMBDA i : i.timestamp > 0)

\* record_interaction after the first hour
RecordLate ==
    /\ now > 0
    /\ Len(LateInteractions(UserA)) < MaxLate
    /\ RecordInteraction(UserInteraction(NextInteractionId(UserA), UserA, "s1", now, PlainKind))

Insights ==
    /\ Len(calls) < MaxCalls
    /\ \E user_id \in AnalyzedUsers : GetUserInsights(user_id)

ProfileNext == RecordLate \/ Analyze \/ Insights \/ Tick

SpecProfile == ProfileInit /\ [][ProfileNext]_vars

-----------------------------------------------------------------------------
\* Insights and the profile

\* the profile fields _update_user_profile feeds from each detector's insight
ProfileFieldsOf ==
    [input_preference |-> {"preferred_input_methods", "interaction_patterns"},
     efficiency_pattern |-> {"efficiency_metrics"},
     error_pattern |-> {},
     accessibility_needs |-> {"accessibility_needs"},
     device_adaptation |-> {"device_preferences"}]

\* what a detector answers on the user's recent interactions
DetectorResult(name, user_id) ==
    RunDetector(name, GetRecentInteractions(interaction_history, user_id, now), now).result

\* the step is an analyze_user_behavior call that ran the detectors
ComputedStep ==
    /\ Len(calls') = Len(calls) + 1
    /\ calls'[Len(calls')].source = "computed"

\* C23: the insights of an analysis are exactly the detectors whose confidence is at least
\* 0.7, each with its data, and the profile fields fed by a detector below 0.7 are after
\* the analysis what they were before it
C23_InsightsAreTheConfidentDetectors ==
    [][ComputedStep =>
          LET call == calls'[Len(calls')]
              confident == {name \in DOMAIN ProfileFieldsOf :
                                RLe(Dec(7, 10), DetectorResult(name, call.user_id).confidence)}
              before == GetOrCreateUserProfile(user_profiles, call.user_id, now)[call.user_id]
              after == user_profiles'[call.user_id]
          IN  /\ DOMAIN call.returned.insights = confident
              /\ \A name \in confident :
                     call.returned.insights[name] = DetectorResult(name, call.user_id).data
              /\ \A name \in DOMAIN ProfileFieldsOf \ confident :
                     \A field \in ProfileFieldsOf[name] : after[field] = before[field]]_vars

\* a second analysis no longer keeps the efficiency pattern the first one kept, and the
\* profile still holds the efficiency metrics of the first
C23_Witness ==
    /\ Len(calls) = 2
    /\ calls[1].source = "computed" /\ calls[2].source = "computed"
    /\ "efficiency_pattern" \in DOMAIN calls[1].returned.insights
    /\ "efficiency_pattern" \notin DOMAIN calls[2].returned.insights
    /\ "input_preference" \in DOMAIN calls[2].returned.insights
    /\ user_profiles[UserA].efficiency_metrics = calls[1].returned.insights["efficiency_pattern"]

\* the four indicators of the accessibility detector, on a window of interactions
IndicatorsSet(window) ==
    LET durations == SelectSeq(Durations(window), LAMBDA d : d > 0)
        keyboard == 10 * Count(window, LAMBDA i : i.interaction_type = "keyboard") > 7 * Len(window)
        voice == 10 * Count(window, LAMBDA i : i.interaction_type = "voice") > 5 * Len(window)
        slow == durations # <<>> /\ SumSeq(durations) > 3000 * Len(durations)
        repetitive == \E k \in 1..Len(window) :
                          Count(window, LAMBDA i : /\ i.element_id = window[k].element_id
                                                   /\ i.action = window[k].action) > 5
    IN  Cardinality({n \in 1..4 : <<keyboard, voice, slow, repetitive>>[n]})

\* C24: the need score of the accessibility detector is the number of the four indicators
\* set (keyboard ratio > 0.7, voice ratio > 0.5, mean duration > 3000 ms, an (element,
\* action) pair more than 5 times) divided by 4, and needs_accessibility_features is true
\* exactly when the score is above 0.3
C24_ScoreIsMeanOfFourIndicators ==
    [][ComputedStep =>
          LET user_id == calls'[Len(calls')].user_id
              data == DetectorResult("accessibility_needs", user_id).data
          IN  /\ data.accessibility_score =
                     Rat(IndicatorsSet(GetRecentInteractions(interaction_history, user_id, now)), 4)
              /\ data.needs_accessibility_features <=> RLt(Dec(3, 10), data.accessibility_score)]_vars

\* C29: with the threshold 0.7 the accessibility detector, whose confidence is at most 0.6,
\* is never among the insights and every profile's accessibility_needs stays empty, while
\* an analysis answers user_type 'accessibility_user' exactly when the detector reports
\* the need, and then recommends what the detector recommends
C29_AccessibilityNeverAnInsight ==
    [][/\ \A user_id \in DOMAIN user_profiles' :
              user_profiles'[user_id].accessibility_needs = EmptyDict
       /\ ComputedStep =>
              LET call == calls'[Len(calls')]
                  detected == DetectorResult("accessibility_needs", call.user_id)
                  needs == detected.data.needs_accessibility_features
              IN  /\ RLe(detected.confidence, Dec(6, 10))
                  /\ "accessibility_needs" \notin DOMAIN call.returned.insights
                  /\ (call.returned.user_type = "accessibility_user") <=> needs
                  /\ needs => \A n \in 1..Len(detected.data.recommendations) :
                                  detected.data.recommendations[n] \in call.returned.recommendations]_vars

\* an analysis of 15 or more interactions answers 'accessibility_user' and recommends longer
\* timeouts, and the profile holds no accessibility need
C29_Witness ==
    /\ calls # <<>>
    /\ calls[Len(calls)].source = "computed"
    /\ calls[Len(calls)].window_size >= 15
    /\ calls[Len(calls)].returned.user_type = "accessibility_user"
    /\ "extended_timeout_settings" \in calls[Len(calls)].returned.recommendations
    /\ user_profiles[UserA].accessibility_needs = EmptyDict
    /\ user_profiles[UserA].interaction_patterns # EmptyDict

CompletenessFields ==
    {"preferred_input_methods", "interaction_patterns", "efficiency_metrics",
     "device_preferences", "ui_preferences"}

\* C30: the profile_completeness get_user_insights returns is the number of non-empty
\* fields among preferred input methods, interaction patterns, efficiency metrics, device
\* preferences and UI preferences, divided by 5; it is never above 0.8, and no profile has
\* UI preferences
C30_CompletenessAtMostFourFifths ==
    /\ \A user_id \in DOMAIN user_profiles : user_profiles[user_id].ui_preferences = EmptyDict
    /\ (last_call.op = "get_user_insights" /\ ~last_call.raised) =>
           LET profile == user_profiles[last_call.user_id]
               filled == {field \in CompletenessFields : DOMAIN profile[field] # {}}
           IN  /\ last_call.returned.profile_completeness = Rat(Cardinality(filled), 5)
               /\ RLe(last_call.returned.profile_completeness, Dec(8, 10))

\* get_user_insights answers a completeness of exactly 0.8
C30_Witness ==
    /\ last_call.op = "get_user_insights"
    /\ ~last_call.raised
    /\ last_call.returned.profile_completeness = Dec(8, 10)
    /\ last_call.returned.interaction_count > 20

-----------------------------------------------------------------------------
(* Confident decisions carry an action.                                    *)

\* the make_decision calls made through process_voice_command or process_visual_debug
CommandCalls ==
    {k \in 1..Len(decision_log) :
        decision_log[k].request.input_data.input_type \in {"voice", "visual_debug"}}

\* C27: with the threshold 0.7 every DecisionResult of confidence 0.7 or more has at
\* least one action, whatever the strategy and the input, and no voice or visual debug
\* command fails on actions[0] of an empty list
C27_ConfidentDecisionHasAction ==
    /\ \A k \in ReturnedCalls :
           RLe(Dec(7, 10), decision_log[k].result.confidence)
               => Len(decision_log[k].result.actions) >= 1
    /\ \A k \in CommandCalls : decision_log[k].response.error # "IndexError"

\* a voice command decided by the heuristic strategy at 09:00 on a desktop has
\* confidence exactly 0.7 and one action, and an earlier decision below 0.7 had none
C27_Witness ==
    \E k \in ReturnedCalls \cap CommandCalls, j \in ReturnedCalls :
        /\ decision_log[k].strategy = "heuristic"
        /\ decision_log[k].result.confidence = Dec(7, 10)
        /\ Len(decision_log[k].result.actions) = 1
        /\ decision_log[k].response = ErrorResponse("AttributeError")
        /\ RLt(decision_log[j].result.confidence, Dec(7, 10))
        /\ decision_log[j].result.actions = <<>>

-----------------------------------------------------------------------------
(* The strategies and the engine's shared state.                           *)

\* task t runs its strategy in this step
StrategyRan(t) == tasks[t].pc = "analyzed" /\ tasks'[t].pc # "analyzed"

\* task t runs _learn_from_decision in this step
LearningRan(t) == tasks[t].pc = "decided" /\ tasks'[t].pc = "done"

\* C25: a strategy changes neither framework_weights nor decision_history nor the user
\* analyzer's profiles; the history grows only by the one result make_decision appends
\* after a strategy returned, and the weights change only in make_decision's learning step
C25_StrategiesLeaveEngineState ==
    [][/\ \A t \in 1..Len(tasks) :
              StrategyRan(t) =>
                  /\ framework_weights' = framework_weights
                  /\ engine_profiles' = engine_profiles
                  /\ user_profiles' = user_profiles
                  /\ decision_history' =
                         IF tasks'[t].pc = "raised" THEN decision_history
                         ELSE Append(decision_history, ValueOf(tasks'[t].result))
       /\ framework_weights' # framework_weights => \E t \in 1..Len(tasks) : LearningRan(t)
       /\ decision_history' # decision_history => \E t \in 1..Len(tasks) : StrategyRan(t)]_vars

\* a strategy returned a decision whose confidence is above 0.8, the decision is in the
\* history, and the weights are still the initial ones: learning has yet to run
C25_Witness ==
    \E t \in 1..Len(tasks) :
        /\ tasks[t].pc = "decided"
        /\ RLt(Dec(8, 10), ValueOf(tasks[t].result).confidence)
        /\ decision_history = <<ValueOf(tasks[t].result)>>
        /\ framework_weights = InitialWeights
        /\ LearnFromDecision(framework_weights, ValueOf(tasks[t].result)) # InitialWeights
        /\ engine_profiles # EmptyDict

-----------------------------------------------------------------------------
(* SpecWeights: make_decision calls of the rule engine, one after the      *)
(* other, with the weights in floating point.                              *)

\* the rule engine decides this request with confidence 0.9 for STAGEWISE
BoostRequest == VisualRequest(UserA, Desktop, "inspect", LargeElement)

\* ... and this one with confidence 0.6, which boosts nothing
PlainRequest == VoiceRequest(UserA, Desktop, <<"hello">>, Zero, EmptyDict)

WeightRequests == {BoostRequest, PlainRequest}

\* enough calls for a boosted weight to absorb the others at this precision
WeightCalls == 17 * MantissaBits

PlainCalls == Count(decision_log, LAMBDA call : call.request = PlainRequest)

WeightsInit ==
    /\ AnalyzerInit
    /\ IntegrateInit
    /\ framework_weights = InitialFloatWeights
    /\ decision_history = <<>>
    /\ engine_profiles = EmptyDict
    /\ strategy = "rule_based"
    /\ learning_enabled = TRUE
    /\ decision_log = <<>>
    /\ tasks = <<>>

Adapt ==
    /\ Len(decision_log) < WeightCalls
    /\ \E request \in WeightRequests, random \in RandomDraws :
           /\ request = PlainRequest => PlainCalls < MaxPlain
           /\ MakeFloatDecision(request, random)

WeightsNext == Adapt

SpecWeights == WeightsInit /\ [][WeightsNext]_vars

\* C26: no decision has a confidence below 0.5, so the x0.95 penalty is never applied;
\* the weights change only in a call that boosts a framework by x1.05 and renormalizes,
\* and every weight stays strictly between 0 and 1
C26_WeightsOnlyBoosted ==
    [][/\ \A k \in 1..Len(decision_log') :
              decision_log'[k].outcome = "returned"
                  => RLe(Dec(5, 10), decision_log'[k].result.confidence)
       /\ framework_weights' # framework_weights =>
              LET call == decision_log'[Len(decision_log')]
              IN  /\ call.outcome = "returned"
                  /\ RLt(Dec(8, 10), call.result.confidence)
                  /\ call.result.primary_framework \in DOMAIN framework_weights
       /\ \A framework \in DOMAIN framework_weights' :
              /\ RLt(Zero, framework_weights'[framework])
              /\ RLt(framework_weights'[framework], One)]_vars

====
